---- MODULE Spec2Model ----
(***************************************************************************)
(* Model of the binary serialization core of Jakobimatrix/utils:           *)
(* BinaryDataBuffer / BinaryDataWriter / BinaryDataReader and the envelope *)
(* (Flags, Header, Serializable) of utils/data/Serialize.                  *)
(*                                                                         *)
(* Numbers wider than TLC's integers (uint64 sizes, int64 timestamps, the  *)
(* int32 checksum) are kept as sequences of octets, least significant      *)
(* first ("limbs"); their arithmetic is done limb by limb so that the      *)
(* wrap-around of the C++ types is the wrap-around of the model.           *)
(***************************************************************************)
EXTENDS Integers, Sequences, FiniteSets, TLC

(***************************************************************************)
(* Bounds of the model.                                                    *)
(***************************************************************************)
\* longest a_string of a record (a prefix of Text)
MaxStrLen == 3
\* number of records serialized back to back into one writer
MaxRecords == 2
\* number of calls made on the writer or reader driven call by call
MaxCalls == 4
\* most octets handed to that reader
MaxHashLen == 8
MaxUtf8Chunks == 3
MaxWideLen == 3
MaxSpanLen == 4
MaxReaderBytes == 10

(***************************************************************************)
(* Program constants.                                                      *)
(***************************************************************************)
\* Header::BYTES = 4 + 2 + 1 + 1 + 8 + 8
HeaderBytes == 24
\* Header::CHECKSUM_BYTES
ChecksumBytes == 4
\* constexpr int32_t prime = 31 in Header::calculateChecksum
Prime == 31
\* sizeof(uint64_t): BinaryDataBuffer::SizeType, every length prefix
SizeTypeBytes == 8
\* test::Id::TestClass_1, test::Id::TestClass_2
IdTestClass1 == 0
IdTestClass2 == 1
\* TestClass_1::VERSION, TestClass_2::VERSION
VersionTestClass == 1

Byte == 0..255
Endians == {"little", "big"}

(***************************************************************************)
(* Octet arithmetic.                                                       *)
(***************************************************************************)
Zeros(n) == [i \in 1..n |-> 0]

Reverse(s) == [i \in 1..Len(s) |-> s[Len(s) + 1 - i]]

\* the octets of a small natural n as a w-octet unsigned integer, least
\* significant first: octet i is (n >> (8*(i-1))) & 0xFF
Limbs(n, w) ==
  [i \in 1..w |-> IF i = 1 THEN n % 256
                  ELSE IF i = 2 THEN (n \div 256) % 256
                  ELSE IF i = 3 THEN (n \div 65536) % 256
                  ELSE IF i = 4 THEN (n \div 16777216) % 256
                  ELSE 0]

\* static_cast<uint64_t>(n) for a size_t n of the model
ToU64(n) == Limbs(n, SizeTypeBytes)

RECURSIVE AddCarry(_, _, _, _)
AddCarry(a, b, i, carry) ==
  IF i > Len(a) THEN <<>>
  ELSE LET s == a[i] + b[i] + carry
       IN  <<s % 256>> \o AddCarry(a, b, i + 1, s \div 256)

\* a + b in unsigned arithmetic of Len(a) octets: the carry out of the top
\* octet is lost, as in size_t addition
AddWrap(a, b) == AddCarry(a, b, 1, 0)

RECURSIVE LeFrom(_, _, _)
LeFrom(a, b, i) ==
  IF i = 0 THEN TRUE
  ELSE IF a[i] < b[i] THEN TRUE
  ELSE IF a[i] > b[i] THEN FALSE
  ELSE LeFrom(a, b, i - 1)

\* a <= b for unsigned integers of the same width
LeU(a, b) == LeFrom(a, b, Len(a))

\* the value of limbs that fit the model's integers (upper octets zero)
Fits(l) == \A i \in 1..Len(l) : i > 3 => l[i] = 0
LimbsToNat(l) ==
  (IF Len(l) >= 1 THEN l[1] ELSE 0) + (IF Len(l) >= 2 THEN 256 * l[2] ELSE 0)
  + (IF Len(l) >= 3 THEN 65536 * l[3] ELSE 0)

\* FromWire without the reversal for big endian
FromWireUnswapped(octets, endian) == octets

\* the writer's / reader's loops: dest[i] = bits >> (i*8) for little endian,
\* dest[i] = bits >> ((sizeof(T)-1-i)*8) for big endian
ToWire(limbs, endian) == IF endian = "little" THEN limbs ELSE Reverse(limbs)
\* bits |= src[i] << (i*8) resp. src[i] << ((sizeof(T)-1-i)*8)
FromWire(octets, endian) == IF endian = "little" THEN octets ELSE Reverse(octets)

(***************************************************************************)
(* Flags: one octet, bit 0 endian, 1 checksum, 2 timestamp, 3-4            *)
(* compression, 5-6 encryption, 7 strict mode.                             *)
(***************************************************************************)
Pow2(i) == IF i = 0 THEN 1 ELSE IF i = 1 THEN 2 ELSE IF i = 2 THEN 4
           ELSE IF i = 3 THEN 8 ELSE IF i = 4 THEN 16 ELSE IF i = 5 THEN 32
           ELSE IF i = 6 THEN 64 ELSE 128
Bit(f, i) == (f \div Pow2(i)) % 2 = 1
SetBit(f, i, on) ==
  IF Bit(f, i) = on THEN f ELSE IF on THEN f + Pow2(i) ELSE f - Pow2(i)

setEndian(f, endian) == SetBit(f, 0, endian = "little")
FlagsGetEndian(f) == IF Bit(f, 0) THEN "little" ELSE "big"
setControlHash(f, on) == SetBit(f, 1, on)
getControlHash(f) == Bit(f, 1)
setTime(f, on) == SetBit(f, 2, on)
getTime(f) == Bit(f, 2)
getCompression(f) == (IF Bit(f, 3) THEN 1 ELSE 0) + (IF Bit(f, 4) THEN 2 ELSE 0)
getEncryption(f) == (IF Bit(f, 5) THEN 1 ELSE 0) + (IF Bit(f, 6) THEN 2 ELSE 0)
setStrictMode(f, on) == SetBit(f, 7, on)
getStrictMode(f) == Bit(f, 7)

\* ChecksumStep without the octet added
ChecksumStepNoOctet(h, b) ==
  LET lo == h[2] * Prime
      hi == h[1] * Prime + (lo \div 65536)
  IN  <<hi % 65536, lo % 65536>>

(***************************************************************************)
(* Header::calculateChecksum: checksum = size; checksum = checksum*31 + b  *)
(* for each octet, in int32 arithmetic; 0 is replaced by 1.  The 32-bit    *)
(* value is kept as two 16-bit halves <<hi, lo>> so that the product wraps *)
(* at 2^32 exactly, the result the golden vectors of test_serialize.cpp    *)
(* record for the overflowing int32 product.                               *)
(***************************************************************************)
ChecksumStep(h, b) ==
  LET lo == h[2] * Prime + b
      hi == h[1] * Prime + (lo \div 65536)
  IN  <<hi % 65536, lo % 65536>>

\* for (const uint8_t b : binary) from octet i on, h being the checksum so far
RECURSIVE ChecksumFold(_, _, _)
ChecksumFold(h, binary, i) ==
  IF i > Len(binary) THEN h
  ELSE LET next == ChecksumStep(h, binary[i])
       IN  IF next[1] < 0 THEN next ELSE ChecksumFold(next, binary, i + 1)

\* calculateChecksum without the replacement of NO_CHECKSUM
calculateChecksumKeepZero(binary) ==
  LET n == Len(binary)
      h == ChecksumFold(<<n \div 65536, n % 65536>>, binary, 1)
  IN  <<h[2] % 256, h[2] \div 256, h[1] % 256, h[1] \div 256>>

\* the int32 result as its four octets, least significant first
calculateChecksum(binary) ==
  LET n == Len(binary)
      h == ChecksumFold(<<n \div 65536, n % 65536>>, binary, 1)
      r == IF h = <<0, 0>> THEN <<0, 1>> ELSE h
  IN  <<r[2] % 256, r[2] \div 256, r[1] % 256, r[1] \div 256>>

\* Header::NO_CHECKSUM, Header::NO_TIMESTAMP
NoChecksum == Zeros(4)
NoTimestamp == Zeros(8)

(***************************************************************************)
(* BinaryDataBuffer: m_buffer, m_cursor, ready, m_endian.  A writer adds   *)
(* maxExpectedSize_.  Operations are functions of the object's state.      *)
(***************************************************************************)
\* setCursor without the comparison with the buffer's size
setCursorUnchecked(b, newCursor) ==
  [ok |-> TRUE, b |-> [b EXCEPT !.cursor = newCursor]]

\* BinaryDataBuffer::setCursor
setCursor(b, newCursor) ==
  IF newCursor > Len(b.buffer) THEN [ok |-> FALSE, b |-> b]
  ELSE [ok |-> TRUE, b |-> [b EXCEPT !.cursor = newCursor]]

\* BinaryDataBuffer::getBuffer(start, length): the span, or the empty span
\* when end >= size (end < start cannot happen below 2^64 in the model)
getBuffer(b, start, length) ==
  LET end == start + length
  IN  IF end >= Len(b.buffer) \/ end < start THEN <<>>
      ELSE SubSeq(b.buffer, start + 1, start + length)

\* BinaryDataWriter::BinaryDataWriter(minExpectedSize, maxExpectedSize, endian)
NewWriter(minExpectedSize, maxExpectedSize, endian) ==
  [buffer |-> Zeros(IF minExpectedSize < maxExpectedSize THEN minExpectedSize
                    ELSE maxExpectedSize),
   cursor |-> 0, ready |-> FALSE, endian |-> endian,
   maxExpectedSize |-> maxExpectedSize]

\* resizeIfNeeded growing the buffer before it looks at maxExpectedSize
resizeIfNeededGrowFirst(w, additional_size) ==
  IF additional_size = 0 THEN [ok |-> TRUE, b |-> w]
  ELSE LET grown == IF w.cursor + additional_size > Len(w.buffer)
                    THEN [w EXCEPT !.buffer =
                            @ \o Zeros(w.cursor + additional_size - Len(@))]
                    ELSE w
       IN  IF w.cursor + additional_size > w.maxExpectedSize
           THEN [ok |-> FALSE, b |-> grown]
           ELSE [ok |-> TRUE, b |-> grown]

\* resizeIfNeeded without the comparison with maxExpectedSize
resizeIfNeededNoMax(w, additional_size) ==
  IF additional_size = 0 THEN [ok |-> TRUE, b |-> w]
  ELSE IF w.cursor + additional_size > Len(w.buffer)
       THEN [ok |-> TRUE,
             b |-> [w EXCEPT !.buffer =
                      @ \o Zeros(w.cursor + additional_size - Len(@))]]
  ELSE [ok |-> TRUE, b |-> w]

\* resizeIfNeeded that grows by replacing the buffer with a new, zeroed one
resizeIfNeededClearing(w, additional_size) ==
  IF additional_size = 0 THEN [ok |-> TRUE, b |-> w]
  ELSE IF w.cursor + additional_size > w.maxExpectedSize THEN [ok |-> FALSE, b |-> w]
  ELSE IF w.cursor + additional_size > Len(w.buffer)
       THEN [ok |-> TRUE, b |-> [w EXCEPT !.buffer = Zeros(w.cursor + additional_size)]]
  ELSE [ok |-> TRUE, b |-> w]

\* BinaryDataWriter::resizeIfNeeded (std::bad_alloc is not modelled)
resizeIfNeeded(w, additional_size) ==
  IF additional_size = 0 THEN [ok |-> TRUE, b |-> w]
  ELSE IF w.cursor + additional_size > w.maxExpectedSize
       THEN [ok |-> FALSE, b |-> w]
  ELSE IF w.cursor + additional_size > Len(w.buffer)
       THEN [ok |-> TRUE,
             b |-> [w EXCEPT !.buffer =
                      @ \o Zeros(w.cursor + additional_size - Len(@))]]
  ELSE [ok |-> TRUE, b |-> w]

\* std::memcpy(m_buffer.data() + m_cursor, ...) followed by m_cursor += n
PutOctets(w, octets) ==
  [w EXCEPT !.buffer = SubSeq(@, 1, w.cursor) \o octets
                       \o SubSeq(@, w.cursor + Len(octets) + 1, Len(@)),
            !.cursor = @ + Len(octets)]

\* BinaryDataWriter::writeNext(T value) for an integral T of Len(limbs) octets
writeNextScalar(w, limbs) ==
  LET r == resizeIfNeeded(w, Len(limbs))
  IN  IF ~r.ok THEN [ok |-> FALSE, b |-> r.b]
      ELSE [ok |-> TRUE, b |-> PutOctets(r.b, ToWire(limbs, w.endian))]

\* BinaryDataWriter::writeNext(const std::string&)
writeNextString(w, value) ==
  LET r == resizeIfNeeded(w, Len(value) + SizeTypeBytes)
  IN  IF ~r.ok THEN [ok |-> FALSE, b |-> r.b]
      ELSE LET s == writeNextScalar(r.b, ToU64(Len(value)))
           IN  IF ~s.ok THEN [ok |-> FALSE, b |-> s.b]
               ELSE [ok |-> TRUE, b |-> PutOctets(s.b, value)]

\* BinaryDataWriter::setWritingFinished
setWritingFinished(w, shring_to_cursor_position) ==
  IF Len(w.buffer) = 0 \/ w.ready THEN [ok |-> FALSE, b |-> w]
  ELSE [ok |-> TRUE,
        b |-> [w EXCEPT !.buffer = IF shring_to_cursor_position
                                   THEN SubSeq(@, 1, w.cursor) ELSE @,
                        !.ready = TRUE]]

\* BinaryDataBuffer::releaseBuffer: the moved-out octets and the object left
releaseBuffer(b) ==
  [octets |-> b.buffer,
   b |-> [b EXCEPT !.cursor = 0, !.ready = FALSE, !.buffer = <<>>]]

(***************************************************************************)
(* Header: m_checksum (int32), m_id (uint16), m_version (uint8), m_flags,  *)
(* m_size (uint64), m_timestamp (int64), each held as limbs.               *)
(***************************************************************************)
Header(id, version, size, flags, checksum, timestamp) ==
  [m_checksum |-> checksum, m_id |-> id, m_version |-> version,
   m_flags |-> flags, m_size |-> size, m_timestamp |-> timestamp]

\* HeaderFields with version written before id
HeaderFieldsVersionFirst(h) ==
  <<h.m_checksum, h.m_version, h.m_id, <<h.m_flags>>, h.m_size, h.m_timestamp>>

\* the fields in the order Header::serialize / Header::deserialize name them
HeaderFields(h) ==
  <<h.m_checksum, h.m_id, h.m_version, <<h.m_flags>>, h.m_size, h.m_timestamp>>

\* writer.writeNext(a) && writer.writeNext(b) && ...: stops at the first
\* write that fails
RECURSIVE WriteAll(_, _, _)
WriteAll(w, fields, i) ==
  IF i > Len(fields) THEN [ok |-> TRUE, b |-> w]
  ELSE LET r == writeNextScalar(w, fields[i])
       IN  IF ~r.ok THEN r ELSE WriteAll(r.b, fields, i + 1)

\* Header::serialize
HeaderSerialize(w, h) == WriteAll(w, HeaderFields(h), 1)

(***************************************************************************)
(* Serializable::serialize.  now is the value Header::nowInMs() returns in *)
(* the call.  The records are those of the test suite: TestClass_1 and     *)
(* TestClass_2, which holds a TestClass_1.                                 *)
(***************************************************************************)
SerializeBackFill(w, m_id, m_version, now, cursor_before_header, cursor_after_class) ==
  LET cursor_after_checksum == cursor_before_header + ChecksumBytes
      cursor_after_header   == cursor_before_header + HeaderBytes
      class_size            == cursor_after_class - cursor_after_header
      s3 == setCursor(w, cursor_before_header)
      flags  == setTime(setControlHash(setEndian(0, w.endian), TRUE), TRUE)
      header == Header(Limbs(m_id, 2), Limbs(m_version, 1), ToU64(class_size),
                       flags, NoChecksum, now)
  IN  IF ~s3.ok THEN [ok |-> FALSE, b |-> w]
      ELSE LET s4 == HeaderSerialize(s3.b, header)
           IN  IF ~s4.ok THEN [ok |-> FALSE, b |-> s4.b]
               ELSE IF getControlHash(flags)
               THEN LET class_buffer == getBuffer(s4.b, cursor_after_checksum, class_size)
                        checksum == calculateChecksum(class_buffer)
                        s5 == setCursor(s4.b, cursor_before_header)
                    IN  IF ~s5.ok THEN [ok |-> FALSE, b |-> s4.b]
                        ELSE LET s6 == writeNextScalar(s5.b, checksum)
                             IN  IF ~s6.ok THEN [ok |-> FALSE, b |-> s6.b]
                                 ELSE setCursor(s6.b, cursor_after_class)
               ELSE setCursor(s4.b, cursor_after_class)

\* Serializable::m_id, Serializable::m_version of the test records
RecordId(rec) == IF rec.kind = "T1" THEN IdTestClass1 ELSE IdTestClass2
RecordVersion(rec) == VersionTestClass

\* TestClass_1::serializeClass, with two of its fields: a_uint16, a_string
serializeClass1(w, rec) ==
  LET r == writeNextScalar(w, Limbs(rec.a_uint16, 2))
  IN  IF ~r.ok THEN r ELSE writeNextString(r.b, rec.a_string)

RECURSIVE Serialize(_, _, _)
\* the virtual serializeClass of rec.  TestClass_2::serializeClass is
\* writer.writeNext(m_class), the serialize of the TestClass_1 it holds;
\* nows are the values of nowInMs() for rec and for the record inside it
serializeClass(w, rec, nows) ==
  IF rec.kind = "T1" THEN serializeClass1(w, rec)
  ELSE Serialize(w, rec.m_class, Tail(nows))

Serialize(w, rec, nows) ==
  LET cursor_before_header == w.cursor
      s1 == setCursor(w, cursor_before_header + HeaderBytes)
  IN  IF ~s1.ok THEN [ok |-> FALSE, b |-> w]
      ELSE LET s2 == serializeClass(s1.b, rec, nows)
           IN  IF ~s2.ok THEN [ok |-> FALSE, b |-> s2.b]
               ELSE SerializeBackFill(s2.b, RecordId(rec), RecordVersion(rec), nows[1],
                                      cursor_before_header, s2.b.cursor)

\* BinaryDataWriter::writeNext(SerializableObject value)
writeNextRecord(w, rec, nows) == Serialize(w, rec, nows)

(***************************************************************************)
(* BinaryDataReader.                                                       *)
(***************************************************************************)
\* BinaryDataReader(std::vector<uint8_t> binary_data, std::endian endian)
NewReader(binary_data, endian) ==
  [buffer |-> binary_data, cursor |-> 0, ready |-> TRUE, endian |-> endian]

\* BinaryDataReader::hasDataLeft(size_t requestedSize): the sum is a size_t
\* sum and wraps at 2^64
hasDataLeft(r, requestedSize) ==
  r.ready /\ LeU(AddWrap(ToU64(r.cursor), requestedSize), ToU64(Len(r.buffer)))

\* readNextScalar moving the cursor before it looks at the octets left
readNextScalarAdvanceFirst(r, n) ==
  IF ~hasDataLeft(r, ToU64(n))
  THEN [ok |-> FALSE, b |-> [r EXCEPT !.cursor = @ + n], limbs |-> <<>>]
  ELSE [ok |-> TRUE, b |-> [r EXCEPT !.cursor = @ + n],
        limbs |-> FromWire(SubSeq(r.buffer, r.cursor + 1, r.cursor + n), r.endian)]

\* BinaryDataReader::readNext(T* value) for an integral T of n octets;
\* limbs is *value, untouched on failure
readNextScalar(r, n) ==
  IF ~hasDataLeft(r, ToU64(n)) THEN [ok |-> FALSE, b |-> r, limbs |-> <<>>]
  ELSE [ok |-> TRUE, b |-> [r EXCEPT !.cursor = @ + n],
        limbs |-> FromWire(SubSeq(r.buffer, r.cursor + 1, r.cursor + n), r.endian)]

\* BinaryDataReader::readNext(std::string* value); old is *value before the
\* call.  When cursor + length wraps, hasDataLeft lets a length through that
\* the buffer does not hold and the copy reads out of bounds: ub.
readNextString(r, old) ==
  LET l == readNextScalar(r, SizeTypeBytes)
  IN  IF ~l.ok THEN [ok |-> FALSE, b |-> r, val |-> old, ub |-> FALSE]
      ELSE IF ~l.b.ready \/ ~hasDataLeft(l.b, l.limbs)
      THEN [ok |-> FALSE, b |-> l.b, val |-> old, ub |-> FALSE]
      ELSE IF ~Fits(l.limbs) \/ l.b.cursor + LimbsToNat(l.limbs) > Len(l.b.buffer)
      THEN [ok |-> FALSE, b |-> l.b, val |-> old, ub |-> TRUE]
      ELSE LET length == LimbsToNat(l.limbs)
           IN  [ok |-> TRUE, b |-> [l.b EXCEPT !.cursor = @ + length],
                val |-> SubSeq(l.b.buffer, l.b.cursor + 1, l.b.cursor + length),
                ub |-> FALSE]

\* reader.readNext(a) && reader.readNext(b) && ...: the widths of the fields
\* read so far, stopping at the first read that fails
RECURSIVE ReadAll(_, _, _, _)
ReadAll(r, widths, i, got) ==
  IF i > Len(widths) THEN [ok |-> TRUE, b |-> r, got |-> got]
  ELSE LET x == readNextScalar(r, widths[i])
       IN  IF ~x.ok THEN [ok |-> FALSE, b |-> x.b, got |-> got]
           ELSE ReadAll(x.b, widths, i + 1, Append(got, x.limbs))

\* Header() = default
DefaultHeader == Header(Limbs(65535, 2), Limbs(0, 1), ToU64(0), 0, NoChecksum, NoTimestamp)

\* Header::deserialize: fields read before a failing read stay assigned
HeaderDeserialize(r) ==
  LET x == ReadAll(r, <<ChecksumBytes, 2, 1, 1, SizeTypeBytes, SizeTypeBytes>>, 1, <<>>)
      n == Len(x.got)
      d == DefaultHeader
  IN  [ok |-> x.ok, b |-> x.b,
       header |-> Header(IF n >= 2 THEN x.got[2] ELSE d.m_id,
                         IF n >= 3 THEN x.got[3] ELSE d.m_version,
                         IF n >= 5 THEN x.got[5] ELSE d.m_size,
                         IF n >= 4 THEN x.got[4][1] ELSE d.m_flags,
                         IF n >= 1 THEN x.got[1] ELSE d.m_checksum,
                         IF n >= 6 THEN x.got[6] ELSE d.m_timestamp)]

\* Header::getEndian
HeaderGetEndian(h) == FlagsGetEndian(h.m_flags)

(***************************************************************************)
(* Serializable::deserialize into target, a record as constructed before   *)
(* the call.                                                               *)
(* The result names the log call that ended the decode (err), whether the  *)
(* version warning was logged (warned) and whether deserializeClass was    *)
(* invoked (invoked), with its own result (body).                          *)
(***************************************************************************)
NoBody == [ok |-> FALSE, ub |-> FALSE]

\* DeserializeChecks without the comparison of m_size and readBytes
DeserializeChecksNoSize(r, header, body, cursor_before_class, warned) ==
  LET cursor_after_class    == body.b.cursor
      readBytes             == cursor_after_class - cursor_before_class
      cursor_before_header  == cursor_before_class - HeaderBytes
      cursor_after_checksum == cursor_before_header + ChecksumBytes
      res(ok, err) == [ok |-> ok, err |-> err, b |-> body.b, val |-> body.val,
                       warned |-> warned, invoked |-> TRUE, body |-> body,
                       ub |-> body.ub, header |-> header]
  IN  IF ~getControlHash(header.m_flags) THEN res(TRUE, "none")
      ELSE LET class_data == getBuffer(body.b, cursor_after_checksum, readBytes)
               checksum   == calculateChecksum(class_data)
           IN  IF header.m_checksum # checksum THEN res(FALSE, "checksum")
               ELSE res(TRUE, "none")

DeserializeChecks(r, header, body, cursor_before_class, warned) ==
  LET cursor_after_class    == body.b.cursor
      readBytes             == cursor_after_class - cursor_before_class
      cursor_before_header  == cursor_before_class - HeaderBytes
      cursor_after_checksum == cursor_before_header + ChecksumBytes
      res(ok, err) == [ok |-> ok, err |-> err, b |-> body.b, val |-> body.val,
                       warned |-> warned, invoked |-> TRUE, body |-> body,
                       ub |-> body.ub, header |-> header]
  IN  IF header.m_size # ToU64(readBytes) THEN res(FALSE, "size")
      ELSE IF ~getControlHash(header.m_flags) THEN res(TRUE, "none")
      ELSE LET class_data == getBuffer(body.b, cursor_after_checksum, readBytes)
               checksum   == calculateChecksum(class_data)
           IN  IF header.m_checksum # checksum THEN res(FALSE, "checksum")
               ELSE res(TRUE, "none")

\* TestClass_1(), TestClass_2(): the freshly constructed records
FreshTestClass1 == [kind |-> "T1", a_uint16 |-> 0, a_string |-> <<>>]
FreshTestClass2 == [kind |-> "T2", m_class |-> FreshTestClass1]

\* deserializeClass1 keeping only the low octet of a_uint16
deserializeClass1LowOctet(r, target) ==
  LET x == readNextScalar(r, 2)
  IN  IF ~x.ok THEN [ok |-> FALSE, b |-> x.b, val |-> target, ub |-> FALSE]
      ELSE LET t1 == [target EXCEPT !.a_uint16 = LimbsToNat(x.limbs) % 256]
               s  == readNextString(x.b, t1.a_string)
           IN  [ok |-> s.ok, b |-> s.b, val |-> [t1 EXCEPT !.a_string = s.val],
                ub |-> s.ub]

\* TestClass_1::deserializeClass
deserializeClass1(r, target) ==
  LET x == readNextScalar(r, 2)
  IN  IF ~x.ok THEN [ok |-> FALSE, b |-> x.b, val |-> target, ub |-> FALSE]
      ELSE LET t1 == [target EXCEPT !.a_uint16 = LimbsToNat(x.limbs)]
               s  == readNextString(x.b, t1.a_string)
           IN  [ok |-> s.ok, b |-> s.b, val |-> [t1 EXCEPT !.a_string = s.val],
                ub |-> s.ub]

RECURSIVE Deserialize(_, _)
\* the virtual deserializeClass of target.  TestClass_2::deserializeClass is
\* reader.readNext(&m_class), the deserialize of the TestClass_1 it holds
deserializeClass(r, target) ==
  IF target.kind = "T1" THEN deserializeClass1(r, target)
  ELSE LET x == Deserialize(r, target.m_class)
       IN  [ok |-> x.ok, b |-> x.b, val |-> [target EXCEPT !.m_class = x.val],
            ub |-> x.ub, inner |-> x]

\* DeserializeWithHeader without the comparison of the header's id and m_id
DeserializeWithHeaderNoId(r, header, target) ==
  LET warned == header.m_version # Limbs(RecordVersion(target), 1)
      stop(err) == [ok |-> FALSE, err |-> err, b |-> r, val |-> target,
                    warned |-> (warned /\ err # "endian"), invoked |-> FALSE,
                    body |-> NoBody, ub |-> FALSE, header |-> header]
  IN  IF HeaderGetEndian(header) # r.endian THEN stop("endian")
      ELSE IF ~hasDataLeft(r, header.m_size) THEN stop("bytes")
      ELSE LET body == deserializeClass(r, target)
           IN  IF ~body.ok
               THEN [ok |-> FALSE, err |-> "class", b |-> body.b, val |-> body.val,
                     warned |-> warned, invoked |-> TRUE, body |-> body,
                     ub |-> body.ub, header |-> header]
               ELSE DeserializeChecks(r, header, body, r.cursor, warned)

\* Serializable::deserialize(reader, header_deseriaized)
DeserializeWithHeader(r, header, target) ==
  LET warned == header.m_version # Limbs(RecordVersion(target), 1)
      stop(err) == [ok |-> FALSE, err |-> err, b |-> r, val |-> target,
                    warned |-> (warned /\ err # "endian"), invoked |-> FALSE,
                    body |-> NoBody, ub |-> FALSE, header |-> header]
  IN  IF HeaderGetEndian(header) # r.endian THEN stop("endian")
      ELSE IF header.m_id # Limbs(RecordId(target), 2) THEN stop("id")
      ELSE IF ~hasDataLeft(r, header.m_size) THEN stop("bytes")
      ELSE LET body == deserializeClass(r, target)
           IN  IF ~body.ok
               THEN [ok |-> FALSE, err |-> "class", b |-> body.b, val |-> body.val,
                     warned |-> warned, invoked |-> TRUE, body |-> body,
                     ub |-> body.ub, header |-> header]
               ELSE DeserializeChecks(r, header, body, r.cursor, warned)

\* Serializable::deserialize(reader)
Deserialize(r, target) ==
  LET h == HeaderDeserialize(r)
  IN  IF ~h.ok
      THEN [ok |-> FALSE, err |-> "header", b |-> h.b, val |-> target,
            warned |-> FALSE, invoked |-> FALSE, body |-> NoBody, ub |-> FALSE,
            header |-> h.header]
      ELSE DeserializeWithHeader(h.b, h.header, target)

\* readNext(SerializableObject* value) that decodes without consuming
readNextRecordPeek(r, target) ==
  LET d == Deserialize(r, target) IN [d EXCEPT !.b.cursor = r.cursor]

\* BinaryDataReader::readNext(SerializableObject* value)
readNextRecord(r, target) == Deserialize(r, target)

(***************************************************************************)
(* Inputs.                                                                 *)
(***************************************************************************)
\* "hello world", the a_string of the tests
Text == <<104, 101, 108, 108, 111, 32, 119, 111, 114, 108, 100>>
Strings == {SubSeq(Text, 1, n) : n \in 0..MaxStrLen}
\* a_uint16 = 655 in the tests
U16Vals == {655}
TestClass1s == {[kind |-> "T1", a_uint16 |-> u, a_string |-> s] : u \in U16Vals, s \in Strings}
TestClass2s == {[kind |-> "T2", m_class |-> c] : c \in TestClass1s}
Records == TestClass1s \cup TestClass2s
Fresh(kind) == IF kind = "T1" THEN FreshTestClass1 ELSE FreshTestClass2

\* values of Header::nowInMs(): the timestamp of the golden vectors of
\* test_serialize.cpp, 0x19AFABD1095, and the millisecond after it
Times == {<<149, 16, 189, 250, 154, 1, 0, 0>>, <<150, 16, 189, 250, 154, 1, 0, 0>>}

\* <<minExpectedSize, maxExpectedSize>> of the writer under test
WriterSizes == {<<0, 256>>, <<64, 48>>, <<128, 256>>}

\* body sizes a foreign header may declare for a body of n octets: one more
\* than the body has, and two values for which cursor + body_size passes 2^64
ForgedSize(which, n) ==
  IF which = "more" THEN ToU64(n + 1)
  ELSE IF which = "wrap" THEN <<232, 255, 255, 255, 255, 255, 255, 255>>
  ELSE <<255, 255, 255, 255, 255, 255, 255, 255>>

NoTamper == [kind |-> "none"]
NoResult == [ok |-> FALSE, err |-> "notrun", invoked |-> FALSE, warned |-> FALSE,
             ub |-> FALSE]
NoReader == [buffer |-> <<>>, cursor |-> 0, ready |-> FALSE, endian |-> "little"]

(***************************************************************************)
(* State.                                                                  *)
(***************************************************************************)
VARIABLES
  cfg,       \* the constructor arguments of the writer: [min, max, endian]
  writer,    \* the BinaryDataWriter
  finished,  \* the call of setWritingFinished: "no" (not called), "failed"
             \* (returned false), "shrunk" / "kept" (returned true, with and
             \* without shrinking to the cursor)
  recs,      \* the writeNext(record) calls made on the writer, in order
  phase,     \* "write": the writer is in use; "stream": its octets are
             \* released; "read": a reader is built on them
  stream,    \* the released octets, as handed to the reader
  sealed,    \* the released octets as the writer left them
  tamper,    \* what was done to the octets between writer and reader
  reader,    \* the BinaryDataReader
  nread,     \* number of readNext(record) calls made on the reader
  des,       \* the result of the last readNext(record)
  round,     \* 1: first encoding; 2: re-encoding of the decoded record
  first      \* round 2: the stream and the record call of round 1

vars == <<cfg, writer, finished, recs, phase, stream, sealed, tamper, reader,
          nread, des, round, first>>

Init ==
  /\ cfg \in {[min |-> s[1], max |-> s[2], endian |-> e] : s \in WriterSizes, e \in Endians}
  /\ writer = NewWriter(cfg.min, cfg.max, cfg.endian)
  /\ finished = "no"
  /\ recs = <<>>
  /\ phase = "write"
  /\ stream = <<>>
  /\ sealed = <<>>
  /\ tamper = NoTamper
  /\ reader = NoReader
  /\ nread = 0
  /\ des = NoResult
  /\ round = 1
  /\ first = [stream |-> <<>>]

\* the octets of s with those at [at, at + Len(octets)) replaced
Patch(s, at, octets) ==
  SubSeq(s, 1, at) \o octets \o SubSeq(s, at + Len(octets) + 1, Len(s))

\* writer.writeNext(rec): Serializable::serialize of rec on the writer
WriteRecord(rec, now, nowInner) ==
  /\ phase = "write"
  /\ Len(recs) < MaxRecords
  /\ finished = "no"
  /\ Len(recs) > 0 => rec.kind = "T1" /\ now = recs[1].now
  /\ LET r == writeNextRecord(writer, rec, <<now, nowInner>>)
     IN  /\ writer' = r.b
         /\ recs' = Append(recs, [rec |-> rec, ok |-> r.ok, p0 |-> writer.cursor,
                                  p1 |-> r.b.cursor, now |-> now, nowInner |-> nowInner,
                                  ready |-> writer.ready, before |-> writer.buffer])
  /\ UNCHANGED <<cfg, finished, phase, stream, sealed, tamper, reader, nread, des,
                 round, first>>

\* round 2: writer.writeNext(rec) for the record decoded in round 1
WriteDecoded(now, nowInner) ==
  /\ round = 2
  /\ first.val.kind = "T1" => nowInner = now
  /\ WriteRecord(first.val, now, nowInner)

\* writer.setWritingFinished(shring_to_cursor_position)
SetWritingFinished(shrink) ==
  /\ phase = "write"
  /\ finished = "no"
  /\ LET r == setWritingFinished(writer, shrink)
     IN  /\ writer' = r.b
         /\ finished' = IF ~r.ok THEN "failed" ELSE IF shrink THEN "shrunk" ELSE "kept"
  /\ UNCHANGED <<cfg, recs, phase, stream, sealed, tamper, reader, nread, des, round, first>>

\* data = writer.releaseBuffer()
ReleaseBuffer ==
  /\ phase = "write"
  /\ finished # "no"
  /\ LET r == releaseBuffer(writer)
     IN  /\ writer' = r.b
         /\ stream' = r.octets
         /\ sealed' = r.octets
  /\ phase' = "stream"
  /\ UNCHANGED <<cfg, finished, recs, tamper, reader, nread, des, round, first>>

\* the stream holds exactly one record, written first and successfully
OneRecord ==
  Len(recs) = 1 /\ recs[1].ok /\ recs[1].p0 = 0 /\ Len(stream) >= recs[1].p1
  /\ finished \in {"shrunk", "kept"}

\* one octet of the stream is changed to another value on the way
MutateOctet(pos, val) ==
  /\ phase = "stream" /\ round = 1 /\ tamper = NoTamper /\ OneRecord
  /\ pos < recs[1].p1
  /\ val # stream[pos + 1]
  /\ stream' = Patch(stream, pos, <<val>>)
  /\ tamper' = [kind |-> "octet", pos |-> pos, val |-> val]
  /\ UNCHANGED <<cfg, writer, finished, recs, phase, sealed, reader, nread, des, round, first>>

\* the checksum a writer of this wire format stores for a record at 0
\* whose body has n octets
Reseal(octets, n, endian) ==
  Patch(octets, 0, ToWire(calculateChecksum(SubSeq(octets, ChecksumBytes + 1, ChecksumBytes + n)), endian))

\* the stream comes from a writer of another version of the record, which
\* may have set the strict-mode flag
ForeignVersion(version, strict) ==
  /\ phase = "stream" /\ round = 1 /\ tamper = NoTamper /\ OneRecord
  /\ LET flags == setStrictMode(stream[8], strict)
         s     == Patch(stream, 6, <<version, flags>>)
     IN  stream' = Reseal(s, recs[1].p1 - HeaderBytes, cfg.endian)
  /\ tamper' = [kind |-> "version", version |-> version, strict |-> strict]
  /\ UNCHANGED <<cfg, writer, finished, recs, phase, sealed, reader, nread, des, round, first>>

\* the stream's header declares another body size
ForeignSize(which) ==
  /\ phase = "stream" /\ round = 1 /\ tamper = NoTamper /\ OneRecord
  /\ LET size == ForgedSize(which, recs[1].p1 - HeaderBytes)
         s    == Patch(stream, 8, ToWire(size, cfg.endian))
     IN  /\ stream' = Reseal(s, recs[1].p1 - HeaderBytes, cfg.endian)
         /\ tamper' = [kind |-> "size", size |-> size]
  /\ UNCHANGED <<cfg, writer, finished, recs, phase, sealed, reader, nread, des, round, first>>

\* BinaryDataReader rdr(data, endian)
OpenReader(endian) ==
  /\ phase = "stream" /\ round = 1
  /\ endian # cfg.endian => tamper = NoTamper /\ Len(recs) = 1
  /\ reader' = NewReader(stream, endian)
  /\ phase' = "read"
  /\ UNCHANGED <<cfg, writer, finished, recs, stream, sealed, tamper, nread, des, round, first>>

\* rdr.readNext(&target) for a freshly constructed record of the kind.  A
\* decode that ran into undefined behaviour may have returned anything.
ReadRecord(kind) ==
  /\ phase = "read"
  /\ nread < Len(recs)
  /\ kind # recs[nread + 1].rec.kind => Len(recs) = 1
  /\ LET r == readNextRecord(reader, Fresh(kind))
     IN  /\ reader' = r.b
         /\ \E ok \in BOOLEAN :
              /\ ~r.ub => ok = r.ok
              /\ des' = [r EXCEPT !.ok = ok]
  /\ nread' = nread + 1
  /\ UNCHANGED <<cfg, writer, finished, recs, phase, stream, sealed, tamper, round, first>>

\* the record just decoded from an untouched stream is encoded again by a
\* new writer built like the first
Reencode ==
  /\ phase = "read" /\ round = 1 /\ nread = 1 /\ des.ok /\ tamper = NoTamper
  /\ Len(recs) = 1 /\ recs[1].ok /\ recs[1].rec.kind = des.val.kind
  /\ first' = [stream |-> stream, val |-> des.val, rec |-> recs[1]]
  /\ round' = 2
  /\ writer' = NewWriter(cfg.min, cfg.max, cfg.endian)
  /\ finished' = "no"
  /\ recs' = <<>>
  /\ phase' = "write"
  /\ stream' = <<>>
  /\ sealed' = <<>>
  /\ reader' = NoReader
  /\ nread' = 0
  /\ des' = NoResult
  /\ UNCHANGED <<cfg, tamper>>

Next ==
  \/ round = 1 /\ \E rec \in TestClass1s, now \in Times : WriteRecord(rec, now, now)
  \/ round = 1 /\ \E rec \in TestClass2s, now \in Times, nowInner \in Times :
                    WriteRecord(rec, now, nowInner)
  \/ \E now \in Times, nowInner \in Times : WriteDecoded(now, nowInner)
  \/ \E shrink \in BOOLEAN : SetWritingFinished(shrink)
  \/ ReleaseBuffer
  \/ \E pos \in 0..(Len(stream) - 1) :
       \E val \in {(stream[pos + 1] + 1) % 256, 255 - stream[pos + 1]} : MutateOctet(pos, val)
  \/ \E version \in {VersionTestClass, VersionTestClass + 1}, strict \in BOOLEAN :
       ForeignVersion(version, strict)
  \/ \E which \in {"more", "wrap", "max"} : ForeignSize(which)
  \/ \E endian \in Endians : OpenReader(endian)
  \/ \E kind \in {"T1", "T2"} : ReadRecord(kind)
  \/ Reencode

Spec == Init /\ [][Next]_vars

(***************************************************************************)
(* Reader and writer primitives exercised one call at a time.              *)
(***************************************************************************)
\* BinaryDataBuffer::setCursorToStart, setCursorToEnd
setCursorToStart(b) == [b EXCEPT !.cursor = 0]
setCursorToEnd(b) == [b EXCEPT !.cursor = Len(b.buffer)]

\* addData without the test of the ready flag
addDataNoReadyCheck(r, isNull, octets, all_data) ==
  IF isNull THEN [ok |-> FALSE, b |-> r]
  ELSE IF Len(octets) = 0 /\ all_data THEN [ok |-> TRUE, b |-> [r EXCEPT !.ready = TRUE]]
  ELSE [ok |-> TRUE, b |-> [r EXCEPT !.buffer = @ \o octets, !.ready = all_data]]

\* addData setting the ready flag whatever all_data says
addDataReadyAtOnce(r, isNull, octets, all_data) ==
  IF isNull THEN [ok |-> FALSE, b |-> r]
  ELSE IF Len(octets) = 0 /\ all_data THEN [ok |-> TRUE, b |-> [r EXCEPT !.ready = TRUE]]
  ELSE IF r.ready THEN [ok |-> FALSE, b |-> r]
  ELSE [ok |-> TRUE, b |-> [r EXCEPT !.buffer = @ \o octets, !.ready = TRUE]]

\* BinaryDataReader::addData(binary_data, length, all_data); isNull says
\* that binary_data is the null pointer, octets are the length octets at it
addData(r, isNull, octets, all_data) ==
  IF isNull THEN [ok |-> FALSE, b |-> r]
  ELSE IF Len(octets) = 0 /\ all_data THEN [ok |-> TRUE, b |-> [r EXCEPT !.ready = TRUE]]
  ELSE IF r.ready THEN [ok |-> FALSE, b |-> r]
  ELSE [ok |-> TRUE, b |-> [r EXCEPT !.buffer = @ \o octets, !.ready = all_data]]

\* BinaryDataReader(const uint8_t* binary_data, size_t length, bool all_data,
\* std::endian endian): BinaryDataBuffer(endian), then addData
NewReaderFromBytes(isNull, octets, all_data, endian) ==
  addData([buffer |-> <<>>, cursor |-> 0, ready |-> FALSE, endian |-> endian],
          isNull, octets, all_data).b

\* cursor += size in size_t, size an unsigned 64-bit value
CursorPlus(r, size) == LimbsToNat(AddWrap(ToU64(r.cursor), size))

\* BinaryDataReader::advanceCursor(size_t size)
advanceCursor(r, size) ==
  IF ~hasDataLeft(r, size) THEN [ok |-> FALSE, b |-> r]
  ELSE [ok |-> TRUE, b |-> [r EXCEPT !.cursor = CursorPlus(r, size)]]

\* BinaryDataReader::nextBytesEqual
nextBytesEqual(r, bytes) ==
  /\ hasDataLeft(r, ToU64(Len(bytes)))
  /\ SubSeq(r.buffer, r.cursor + 1, r.cursor + Len(bytes)) = bytes

\* BinaryDataReader::advanceCursorIfEqual
advanceCursorIfEqual(r, bytes) ==
  IF nextBytesEqual(r, bytes)
  THEN [ok |-> TRUE, b |-> [r EXCEPT !.cursor = @ + Len(bytes)]]
  ELSE [ok |-> FALSE, b |-> r]

\* std::search over the whole buffer, whatever the cursor
OccurrencesFromStart(r, bytes) ==
  {p \in 0..(Len(r.buffer) - Len(bytes)) :
     SubSeq(r.buffer, p + 1, p + Len(bytes)) = bytes}

\* std::search(buffer.begin() + cursor, buffer.end(), bytes): the offsets
\* at or after the cursor where bytes occur
Occurrences(r, bytes) ==
  {p \in r.cursor..(Len(r.buffer) - Len(bytes)) :
     SubSeq(r.buffer, p + 1, p + Len(bytes)) = bytes}

\* BinaryDataReader::findNextBytesAndAdvance
findNextBytesAndAdvance(r, bytes, advanceBeyond) ==
  IF ~r.ready \/ Len(bytes) = 0 \/ r.cursor >= Len(r.buffer) \/ Occurrences(r, bytes) = {}
  THEN [ok |-> FALSE, b |-> r]
  ELSE LET it == CHOOSE p \in Occurrences(r, bytes) : \A q \in Occurrences(r, bytes) : p <= q
       IN  [ok |-> TRUE,
            b |-> [r EXCEPT !.cursor = IF advanceBeyond THEN it + Len(bytes) ELSE it]]

\* BinaryDataReader::readNext(bool* value); old is *value before the call
readNextBool(r, old) ==
  IF ~hasDataLeft(r, ToU64(1)) THEN [ok |-> FALSE, b |-> r, val |-> old]
  ELSE [ok |-> TRUE, b |-> [r EXCEPT !.cursor = @ + 1],
        val |-> (r.buffer[r.cursor + 1] # 0)]

\* for (size_t i = 0; i < count; ++i) { T elem{}; readNext(&elem);
\* value->push_back(elem); } for T = uint8_t: value is the container so far,
\* left is count - i (limited to more than the buffer can hold)
RECURSIVE ReadElements(_, _, _)
ReadElements(r, left, value) ==
  IF left = 0 THEN [ok |-> TRUE, b |-> r, val |-> value]
  ELSE LET e == readNextScalar(r, 1)
       IN  IF ~e.ok THEN [ok |-> FALSE, b |-> e.b, val |-> value]
           ELSE ReadElements(e.b, left - 1, Append(value, e.limbs[1]))

\* the loop bound count as far as the loop can get with the octets there are
LoopBound(r, count) ==
  IF Fits(count) /\ LimbsToNat(count) <= Len(r.buffer) THEN LimbsToNat(count)
  ELSE Len(r.buffer) + 1

\* BinaryDataReader::readNext(std::vector<T>* value) for T = uint8_t; old is
\* *value before the call.  value->reserve(count) of a count no allocation
\* can serve throws in a noexcept function: terminated.
readNextVector(r, old) ==
  IF ~r.ready THEN [ok |-> FALSE, b |-> r, val |-> old, terminated |-> FALSE]
  ELSE LET c == readNextScalar(r, SizeTypeBytes)
       IN  IF ~c.ok THEN [ok |-> FALSE, b |-> c.b, val |-> old, terminated |-> FALSE]
           ELSE IF ~Fits(c.limbs)
           THEN [ok |-> FALSE, b |-> c.b, val |-> <<>>, terminated |-> TRUE]
           ELSE LET x == ReadElements(c.b, LoopBound(c.b, c.limbs), <<>>)
                IN  [ok |-> x.ok, b |-> x.b, val |-> x.val, terminated |-> FALSE]

\* the loop of readNext(std::map<K, V>*) for K = V = uint8_t; value is the
\* set of <<key, val>> so far, emplace keeps the pair a key already has
RECURSIVE ReadPairs(_, _, _)
ReadPairs(r, left, value) ==
  IF left = 0 THEN [ok |-> TRUE, b |-> r, val |-> value]
  ELSE LET k == readNextScalar(r, 1)
       IN  IF ~k.ok THEN [ok |-> FALSE, b |-> k.b, val |-> value]
           ELSE LET v == readNextScalar(k.b, 1)
                IN  IF ~v.ok THEN [ok |-> FALSE, b |-> v.b, val |-> value]
                    ELSE ReadPairs(v.b, left - 1,
                                   IF \E p \in value : p[1] = k.limbs[1] THEN value
                                   ELSE value \cup {<<k.limbs[1], v.limbs[1]>>})

\* BinaryDataReader::readNext(std::map<K, V>* value)
readNextMap(r, old) ==
  IF ~r.ready THEN [ok |-> FALSE, b |-> r, val |-> old]
  ELSE LET c == readNextScalar(r, SizeTypeBytes)
       IN  IF ~c.ok THEN [ok |-> FALSE, b |-> c.b, val |-> old]
           ELSE ReadPairs(c.b, LoopBound(c.b, c.limbs), {})

(***************************************************************************)
(* SpecIO: one writer or one reader, driven one call at a time.  des holds *)
(* the last call (op), its argument (arg), its return value (ok), the      *)
(* object before the call (pre), the caller's output variable before and   *)
(* after the call (old, out) and the call before it (prev); stream holds   *)
(* the octets handed to the reader by the addData calls that succeeded;    *)
(* nread counts the calls.                                                 *)
(***************************************************************************)
\* <<minExpectedSize, maxExpectedSize>> of the writers driven call by call
IOWriterSizes == {<<0, 3>>, <<2, 12>>, <<6, 4>>, <<0, 40>>}
\* the values written: a uint8_t / bool, a uint16_t, a uint64_t
IOScalars == {<<1>>, Limbs(655, 2), ToU64(2)}
IOStrings == {<<>>, SubSeq(Text, 1, 2)}
IORecord == [kind |-> "T1", a_uint16 |-> 655, a_string |-> <<>>]
IONow == <<149, 16, 189, 250, 154, 1, 0, 0>>
\* the arrays handed to the reader: nothing, a length prefix of 2 in the
\* reader's byte order, one and two octets, a length prefix of 2^64 - 1
IOChunks(endian) ==
  {<<>>, ToWire(ToU64(2), endian), <<7>>, <<7, 9>>,
   <<255, 255, 255, 255, 255, 255, 255, 255>>}
\* sizeof(T) of the scalars read
IOWidths == {1, 2, SizeTypeBytes}
\* arguments of advanceCursor: 1, 3 and 2^64 - 1
IOAdvances == {ToU64(1), ToU64(3), <<255, 255, 255, 255, 255, 255, 255, 255>>}
\* arguments of advanceCursorIfEqual and findNextBytesAndAdvance
IOPatterns == {<<>>, <<7>>, <<9>>, <<7, 9>>}
\* the caller's string, vector and map before a read into them
IOOldStrings == {SubSeq(Text, 1, 2)}
IOVectors == {<<1, 2>>}
IOMaps == {{<<1, 2>>}}
\* arguments of setCursor on a buffer of n octets
IOPositions(n) == {0, 1, n, n + 1}

NoCall == [op |-> "none", ok |-> TRUE]
IdleWriter == NewWriter(0, 0, "little")

InitIO ==
  /\ recs = <<>> /\ sealed = <<>> /\ tamper = NoTamper /\ round = 1
  /\ first = [stream |-> <<>>]
  /\ finished = "no"
  /\ nread = 0
  /\ \/ /\ phase = "writer"
        /\ cfg \in {[min |-> s[1], max |-> s[2], endian |-> e] :
                      s \in IOWriterSizes, e \in Endians}
        /\ writer = NewWriter(cfg.min, cfg.max, cfg.endian)
        /\ reader = NoReader
        /\ stream = <<>>
        /\ des = [op |-> "new", ok |-> TRUE, arg |-> <<>>, pre |-> writer,
                  old |-> <<>>, out |-> <<>>, prev |-> NoCall]
     \/ /\ phase = "reader"
        /\ cfg \in {[min |-> 0, max |-> 0, endian |-> e] : e \in Endians}
        /\ writer = IdleWriter
        /\ \E isNull \in BOOLEAN, all_data \in BOOLEAN, octets \in IOChunks(cfg.endian) :
             /\ isNull => octets = <<>>
             /\ reader = NewReaderFromBytes(isNull, octets, all_data, cfg.endian)
             /\ stream = IF isNull THEN <<>> ELSE octets
             /\ des = [op |-> "new", ok |-> ~isNull,
                       arg |-> [isNull |-> isNull, octets |-> octets, all_data |-> all_data],
                       pre |-> reader, old |-> <<>>, out |-> <<>>, prev |-> NoCall]

\* a call on the writer that returned ok and left the writer as w
WriterCall(op, arg, ok, w) ==
  /\ phase = "writer" /\ nread < MaxCalls
  /\ writer' = w
  /\ des' = [op |-> op, ok |-> ok, arg |-> arg, pre |-> writer, old |-> <<>>,
             out |-> <<>>,
             prev |-> IF des.op = "writeScalar" /\ ~des.ok
                      THEN [op |-> des.op, ok |-> des.ok] ELSE NoCall]
  /\ nread' = nread + 1
  /\ finished' = IF op = "setWritingFinished" /\ ok THEN "kept" ELSE finished
  /\ UNCHANGED <<cfg, recs, phase, stream, sealed, tamper, reader, round, first>>

\* writer.writeNext(value) for a scalar
IOWriteScalar(limbs) ==
  LET r == writeNextScalar(writer, limbs) IN WriterCall("writeScalar", limbs, r.ok, r.b)

\* writer.writeNext(std::string)
IOWriteString(value) ==
  LET r == writeNextString(writer, value) IN WriterCall("writeString", value, r.ok, r.b)

\* writer.writeNext(record)
IOWriteRecord ==
  LET r == writeNextRecord(writer, IORecord, <<IONow, IONow>>)
  IN  WriterCall("writeRecord", IORecord, r.ok, r.b)

\* writer.setCursor(pos)
IOWriterSetCursor(pos) ==
  LET r == setCursor(writer, pos) IN WriterCall("setCursor", pos, r.ok, r.b)

\* writer.setCursorToStart(), writer.setCursorToEnd()
IOWriterCursorToStart == WriterCall("setCursorToStart", 0, TRUE, setCursorToStart(writer))
IOWriterCursorToEnd == WriterCall("setCursorToEnd", 0, TRUE, setCursorToEnd(writer))

\* writer.setWritingFinished(shrink)
IOSetWritingFinished(shrink) ==
  LET r == setWritingFinished(writer, shrink)
  IN  WriterCall("setWritingFinished", shrink, r.ok, r.b)

\* writer.releaseBuffer()
IOWriterRelease == WriterCall("releaseBuffer", 0, TRUE, releaseBuffer(writer).b)

\* a call on the reader that returned ok, left the reader as r and the
\* caller's variable, old before the call, as out; terminated: the call
\* ended the process
ReaderCall(op, arg, ok, r, old, out, terminated) ==
  /\ phase = "reader" /\ nread < MaxCalls
  /\ reader' = r
  /\ des' = [op |-> op, ok |-> ok, arg |-> arg, pre |-> reader, old |-> old,
             out |-> out, prev |-> NoCall]
  /\ nread' = nread + 1
  /\ phase' = IF terminated THEN "terminated" ELSE phase
  /\ stream' = IF op = "addData" /\ ok THEN stream \o arg.octets
               ELSE IF op = "releaseBuffer" THEN <<>> ELSE stream
  /\ UNCHANGED <<cfg, writer, finished, recs, sealed, tamper, round, first>>

\* reader.addData(binary_data, length, all_data)
IOAddData(isNull, octets, all_data) ==
  /\ Len(reader.buffer) + Len(octets) <= MaxReaderBytes
  /\ LET r == addData(reader, isNull, octets, all_data)
     IN  ReaderCall("addData", [isNull |-> isNull, octets |-> octets, all_data |-> all_data],
                    r.ok, r.b, <<>>, <<>>, FALSE)

\* reader.readNext(&value) for an integral value of n octets
IOReadScalar(n) ==
  LET r == readNextScalar(reader, n)
  IN  ReaderCall("readScalar", n, r.ok, r.b, <<>>, r.limbs, FALSE)

\* reader.readNext(&a_bool)
IOReadBool(old) ==
  LET r == readNextBool(reader, old)
  IN  ReaderCall("readBool", 1, r.ok, r.b, old, r.val, FALSE)

\* reader.readNext(&a_string).  A length that passed hasDataLeft by
\* wrap-around makes the copy read outside the buffer
IOReadString(old) ==
  LET r == readNextString(reader, old)
  IN  ReaderCall("readString", 0, r.ok, r.b, old, r.val, r.ub)

\* reader.readNext(&a_vector)
IOReadVector(old) ==
  LET r == readNextVector(reader, old)
  IN  ReaderCall("readVector", 0, r.ok, r.b, old, r.val, r.terminated)

\* reader.readNext(&a_map)
IOReadMap(old) ==
  LET r == readNextMap(reader, old)
  IN  ReaderCall("readMap", 0, r.ok, r.b, old, r.val, FALSE)

\* reader.readNext(&record)
IOReadRecord ==
  LET r == readNextRecord(reader, FreshTestClass1)
  IN  ReaderCall("readRecord", 0, r.ok, r.b, FreshTestClass1, r.val, r.ub)

\* reader.advanceCursor(size)
IOAdvanceCursor(size) ==
  LET r == advanceCursor(reader, size)
  IN  ReaderCall("advanceCursor", size, r.ok, r.b, <<>>, <<>>, FALSE)

\* reader.advanceCursorIfEqual(bytes)
IOAdvanceCursorIfEqual(bytes) ==
  LET r == advanceCursorIfEqual(reader, bytes)
  IN  ReaderCall("advanceCursorIfEqual", bytes, r.ok, r.b, <<>>, <<>>, FALSE)

\* reader.findNextBytesAndAdvance(bytes, advanceBeyond)
IOFindNextBytesAndAdvance(bytes, advanceBeyond) ==
  LET r == findNextBytesAndAdvance(reader, bytes, advanceBeyond)
  IN  ReaderCall("findNextBytesAndAdvance",
                 [bytes |-> bytes, advanceBeyond |-> advanceBeyond],
                 r.ok, r.b, <<>>, <<>>, FALSE)

\* reader.setCursor(pos)
IOReaderSetCursor(pos) ==
  LET r == setCursor(reader, pos)
  IN  ReaderCall("setCursor", pos, r.ok, r.b, <<>>, <<>>, FALSE)

\* reader.setCursorToStart(), reader.setCursorToEnd()
IOReaderCursorToStart ==
  ReaderCall("setCursorToStart", 0, TRUE, setCursorToStart(reader), <<>>, <<>>, FALSE)
IOReaderCursorToEnd ==
  ReaderCall("setCursorToEnd", 0, TRUE, setCursorToEnd(reader), <<>>, <<>>, FALSE)

\* reader.releaseBuffer()
IOReaderRelease ==
  ReaderCall("releaseBuffer", 0, TRUE, releaseBuffer(reader).b, <<>>, <<>>, FALSE)

NextIO ==
  \/ \E limbs \in IOScalars : IOWriteScalar(limbs)
  \/ \E value \in IOStrings : IOWriteString(value)
  \/ IOWriteRecord
  \/ \E pos \in IOPositions(Len(writer.buffer)) : IOWriterSetCursor(pos)
  \/ IOWriterCursorToStart
  \/ IOWriterCursorToEnd
  \/ \E shrink \in BOOLEAN : IOSetWritingFinished(shrink)
  \/ IOWriterRelease
  \/ \E all_data \in BOOLEAN, octets \in IOChunks(cfg.endian) :
       IOAddData(FALSE, octets, all_data)
  \/ \E all_data \in BOOLEAN : IOAddData(TRUE, <<7>>, all_data)
  \/ \E n \in IOWidths : IOReadScalar(n)
  \/ IOReadBool(FALSE)
  \/ \E old \in IOOldStrings : IOReadString(old)
  \/ \E old \in IOVectors : IOReadVector(old)
  \/ \E old \in IOMaps : IOReadMap(old)
  \/ IOReadRecord
  \/ \E size \in IOAdvances : IOAdvanceCursor(size)
  \/ \E bytes \in IOPatterns : IOAdvanceCursorIfEqual(bytes)
  \/ \E bytes \in IOPatterns, advanceBeyond \in BOOLEAN :
       IOFindNextBytesAndAdvance(bytes, advanceBeyond)
  \/ \E pos \in IOPositions(Len(reader.buffer)) : IOReaderSetCursor(pos)
  \/ IOReaderCursorToStart
  \/ IOReaderCursorToEnd
  \/ IOReaderRelease

SpecIO == InitIO /\ [][NextIO]_vars

(***************************************************************************)
(* Readings of the state the claims are stated in.                         *)
(***************************************************************************)
\* the first record was read from the stream by a reader of the writer's
\* endianness into a record of the kind that was written
ReadAsWritten ==
  /\ phase = "read" /\ nread = 1 /\ Len(recs) = 1 /\ recs[1].ok /\ recs[1].p0 = 0
  /\ reader.endian = cfg.endian
  /\ des.val.kind = recs[1].rec.kind

\* the number of octets serializeClass emits for rec
RECURSIVE BodySize(_)
BodySize(rec) ==
  IF rec.kind = "T1" THEN 2 + SizeTypeBytes + Len(rec.a_string)
  ELSE HeaderBytes + BodySize(rec.m_class)

\* the header a reader of the given endianness finds at offset at of octets
HeaderAt(octets, at, endian) ==
  [checksum  |-> FromWire(SubSeq(octets, at + 1, at + 4), endian),
   id        |-> FromWire(SubSeq(octets, at + 5, at + 6), endian),
   version   |-> octets[at + 7],
   flags     |-> octets[at + 8],
   body_size |-> FromWire(SubSeq(octets, at + 9, at + 16), endian),
   timestamp |-> FromWire(SubSeq(octets, at + 17, at + 24), endian)]

\* the header a successful serialize of rec from p0 to p1 has to leave at p0
HeaderAsClaimed(octets, p0, p1, rec, now, endian) ==
  LET h == HeaderAt(octets, p0, endian)
  IN  /\ h.id = Limbs(IF rec.kind = "T1" THEN IdTestClass1 ELSE IdTestClass2, 2)
      /\ h.version = VersionTestClass
      /\ h.body_size = ToU64(p1 - (p0 + HeaderBytes))
      /\ h.timestamp = now
      /\ Bit(h.flags, 0) = (endian = "little")
      /\ Bit(h.flags, 1) /\ Bit(h.flags, 2)
      /\ \A i \in 3..7 : ~Bit(h.flags, i)

\* the first record of the stream was read, whatever was done to the stream
FirstRead == phase = "read" /\ nread = 1 /\ Len(stream) >= HeaderBytes

(***************************************************************************)
(* C1: envelope round trip.  A record serialized successfully, finished    *)
(* with setWritingFinished(true), released and decoded by a reader of the  *)
(* same endianness into a fresh record of the same kind decodes with       *)
(* success, and the decoded record equals the original, also when it       *)
(* holds a nested record.                                                  *)
(***************************************************************************)
C1_RoundTrip ==
  (/\ phase = "read" /\ nread >= 1 /\ finished = "shrunk" /\ tamper = NoTamper
   /\ \A i \in 1..nread : recs[i].ok
   /\ reader.endian = cfg.endian
   /\ des.val.kind = recs[nread].rec.kind)
    => (des.ok /\ des.val = recs[nread].rec)

C1_Witness ==
  /\ phase = "read" /\ nread = 1 /\ finished = "shrunk" /\ tamper = NoTamper
  /\ recs[1].ok /\ reader.endian = cfg.endian /\ cfg.endian = "big"
  /\ des.ok /\ des.val = recs[1].rec
  /\ des.val.kind = "T2" /\ Len(des.val.m_class.a_string) = MaxStrLen

(***************************************************************************)
(* C2: the checksum stored in the header of a record written at p0 with    *)
(* post-body cursor p1 is the rolling hash over the octets [p0+4, p1).     *)
(***************************************************************************)
C2_ChecksumCoversHeaderAndBody ==
  \A i \in 1..Len(recs) :
    (phase = "write" /\ recs[i].ok)
      => SubSeq(writer.buffer, recs[i].p0 + 1, recs[i].p0 + ChecksumBytes)
           = ToWire(calculateChecksum(SubSeq(writer.buffer,
                                             recs[i].p0 + ChecksumBytes + 1,
                                             recs[i].p1)), cfg.endian)

(***************************************************************************)
(* C3: changing one octet of the body of a valid stream to another value   *)
(* makes deserialize return failure.                                       *)
(***************************************************************************)
C3_BodyCorruptionRejected ==
  (ReadAsWritten /\ tamper.kind = "octet" /\ tamper.pos >= HeaderBytes) => ~des.ok

(***************************************************************************)
(* C4: a header version other than the record's makes deserialize fail     *)
(* exactly when the header's strict-mode flag is set; with the flag clear  *)
(* the warning is logged and the otherwise consistent stream decodes.      *)
(***************************************************************************)
C4_StrictVersionFatal ==
  (ReadAsWritten /\ tamper.kind = "version" /\ tamper.version # VersionTestClass)
    => /\ ~des.ok <=> tamper.strict
       /\ ~tamper.strict => des.warned /\ des.ok

(***************************************************************************)
(* C5: changing only the version octet (offset 6) of a valid stream whose  *)
(* strict-mode bit is clear makes deserialize log the version warning and  *)
(* still return success.                                                   *)
(***************************************************************************)
C5_VersionOctetStillDecodes ==
  (ReadAsWritten /\ tamper.kind = "octet" /\ tamper.pos = 6 /\ ~getStrictMode(stream[8]))
    => (des.warned /\ des.ok)

(***************************************************************************)
(* C5, as the code has it: the version octet lies in the octets the        *)
(* checksum covers, so the changed stream logs the version warning, has    *)
(* its body handler invoked and is then refused by the checksum            *)
(* comparison.                                                             *)
(***************************************************************************)
C5_VersionOctetFailsChecksum ==
  (ReadAsWritten /\ tamper.kind = "octet" /\ tamper.pos = 6 /\ ~getStrictMode(stream[8]))
    => (des.warned /\ des.invoked /\ des.body.ok /\ ~des.ok /\ des.err = "checksum")

C5_Witness ==
  /\ ReadAsWritten /\ tamper.kind = "octet" /\ tamper.pos = 6 /\ ~getStrictMode(stream[8])
  /\ des.warned /\ des.err = "checksum" /\ des.val = recs[1].rec

(***************************************************************************)
(* C6: if the header's endian bit differs from the reader's endianness, or *)
(* the header's id from the target's id, deserialize fails and the body    *)
(* handler deserializeClass is never invoked.                              *)
(***************************************************************************)
C6_IdentityGatesBody ==
  FirstRead =>
    LET h == HeaderAt(stream, 0, reader.endian)
        id == IF des.val.kind = "T1" THEN IdTestClass1 ELSE IdTestClass2
    IN  (Bit(h.flags, 0) # (reader.endian = "little") \/ h.id # Limbs(id, 2))
          => (~des.ok /\ ~des.invoked)

C6_Witness ==
  /\ FirstRead /\ recs[1].ok /\ tamper = NoTamper /\ reader.endian = cfg.endian
  /\ recs[1].rec.kind = "T1" /\ des.val.kind = "T2"
  /\ des.err = "id" /\ ~des.invoked /\ ~des.ok

C6_WitnessEndian ==
  /\ FirstRead /\ recs[1].ok /\ tamper = NoTamper /\ reader.endian # cfg.endian
  /\ des.err = "endian" /\ ~des.invoked /\ ~des.ok

(***************************************************************************)
(* C7: a header body_size greater than the number of unread octets after   *)
(* the header makes deserialize fail without invoking the body handler,    *)
(* for every unsigned 64-bit body_size.                                    *)
(***************************************************************************)
C7_OversizedBodyNeverRead ==
  (ReadAsWritten /\ tamper.kind = "size"
   /\ ~LeU(tamper.size, ToU64(Len(stream) - HeaderBytes)))
    => (~des.ok /\ ~des.invoked)

(***************************************************************************)
(* C8: if the body handler succeeds but moved the cursor by a number of    *)
(* octets other than the header's body_size, deserialize fails.            *)
(***************************************************************************)
C8_SizeMismatchFatal ==
  (FirstRead /\ des.invoked /\ des.body.ok
   /\ HeaderAt(stream, 0, reader.endian).body_size
        # ToU64(des.body.b.cursor - HeaderBytes))
    => ~des.ok

C8_Witness ==
  /\ FirstRead /\ des.invoked /\ des.body.ok /\ ~des.ok /\ des.err = "size"
  /\ LeU(HeaderAt(stream, 0, reader.endian).body_size, ToU64(Len(stream) - HeaderBytes))
  /\ HeaderAt(stream, 0, reader.endian).body_size
       # ToU64(des.body.b.cursor - HeaderBytes)

(***************************************************************************)
(* C9: after a successful serialize from p0 whose body ended at p1 the     *)
(* cursor is p1 and the 24 octets at p0 are checksum(4) id(2) version(1)   *)
(* flags(1) body_size(8) timestamp(8), with the record's id and version,   *)
(* body_size = p1 - (p0 + 24), the endian bit of the writer, the checksum  *)
(* and timestamp bits set and the other bits clear; the same holds for     *)
(* the record nested in it.                                                *)
(***************************************************************************)
C9_HeaderLayout ==
  \A i \in 1..Len(recs) :
    (phase = "write" /\ recs[i].ok) =>
      LET c == recs[i]
      IN  /\ c.p1 = c.p0 + HeaderBytes + BodySize(c.rec)
          /\ (i = Len(recs) /\ finished = "no") => writer.cursor = c.p1
          /\ HeaderAsClaimed(writer.buffer, c.p0, c.p1, c.rec, c.now, cfg.endian)
          /\ c.rec.kind = "T2" =>
               HeaderAsClaimed(writer.buffer, c.p0 + HeaderBytes, c.p1, c.rec.m_class,
                               c.nowInner, cfg.endian)

C9_Witness ==
  /\ phase = "write" /\ Len(recs) = 2 /\ recs[1].ok /\ recs[2].ok /\ finished = "no"
  /\ cfg.endian = "big" /\ recs[1].rec.kind = "T2" /\ recs[2].p0 > 0
  /\ writer.cursor = recs[2].p1
  /\ HeaderAsClaimed(writer.buffer, recs[2].p0, recs[2].p1, recs[2].rec, recs[2].now, "big")

(***************************************************************************)
(* Round 2: the octets of the re-encoding next to those of the first       *)
(* encoding.                                                               *)
(***************************************************************************)
Reencoded == round = 2 /\ phase = "write" /\ Len(recs) >= 1 /\ recs[1].ok

SameBodySize ==
  /\ recs[1].p1 = first.rec.p1
  /\ SubSeq(writer.buffer, 9, 16) = SubSeq(first.stream, 9, 16)
SameBody ==
  SubSeq(writer.buffer, HeaderBytes + 1, recs[1].p1)
    = SubSeq(first.stream, HeaderBytes + 1, first.rec.p1)
SameChecksum ==
  SubSeq(writer.buffer, 1, ChecksumBytes) = SubSeq(first.stream, 1, ChecksumBytes)
SameTimes == recs[1].now = first.rec.now /\ recs[1].nowInner = first.rec.nowInner

C11_PrimitiveReadCursor ==
  (des.op \in {"readScalar", "readBool"}) =>
    LET n     == des.arg
        short == ~des.pre.ready \/ Len(des.pre.buffer) - des.pre.cursor < n
    IN  /\ des.ok = ~short
        /\ ~des.ok => reader.cursor = des.pre.cursor
        /\ des.ok => reader.cursor = des.pre.cursor + n

C11_Witness ==
  /\ des.op = "readScalar" /\ ~des.ok /\ des.pre.ready
  /\ des.pre.cursor > 0 /\ des.pre.cursor < Len(des.pre.buffer)
  /\ reader.cursor = des.pre.cursor

(***************************************************************************)
(* C12: a failing readNext of a std::string leaves the cursor where it was, *)
(* also when the length prefix was read and declares more octets than      *)
(* remain.                                                                 *)
(***************************************************************************)
C12_FailedStringReadKeepsCursor ==
  (phase = "reader" /\ des.op = "readString" /\ ~des.ok)
    => reader.cursor = des.pre.cursor

(***************************************************************************)
(* C13: a primitive write with cursor + sizeof(T) > max_size returns false *)
(* and leaves buffer and cursor as they were; a write that fits within     *)
(* max_size succeeds, also right after a failed one.                       *)
(***************************************************************************)
C13_FailedWriteKeepsWriter ==
  (des.op = "writeScalar") =>
    LET n    == Len(des.arg)
        over == des.pre.cursor + n > des.pre.maxExpectedSize
    IN  /\ des.ok = ~over
        /\ over => writer = des.pre
        /\ ~over => writer.cursor = des.pre.cursor + n

C13_Witness ==
  /\ des.op = "writeScalar" /\ des.ok
  /\ des.prev.op = "writeScalar" /\ ~des.prev.ok
  /\ des.pre.cursor > 0

\* the object the calls of this behaviour are made on
Called == IF phase = "writer" THEN writer ELSE reader

(***************************************************************************)
(* C14: decoding a variable-length container from a stream that ends after *)
(* the length prefix and before all declared elements returns false, reads *)
(* no octet past the end of the buffer and leaves the caller's container   *)
(* as it was before the call.                                              *)
(***************************************************************************)
C14_TruncatedContainerKeepsOutput ==
  (/\ des.op \in {"readVector", "readMap"} /\ des.pre.ready
   /\ Len(des.pre.buffer) - des.pre.cursor >= SizeTypeBytes
   /\ ~des.ok)
    => /\ phase = "reader"
       /\ reader.cursor <= Len(reader.buffer)
       /\ des.out = des.old

(***************************************************************************)
(* C15: after any sequence of calls on a reader or a writer the cursor is  *)
(* within 0 .. buffer length; setCursor(pos) with pos > length returns     *)
(* false and leaves the cursor unchanged.                                  *)
(***************************************************************************)
C15_CursorWithinBuffer ==
  /\ phase \in {"writer", "reader"} => Called.cursor \in 0..Len(Called.buffer)
  /\ (des.op = "setCursor" /\ des.arg > Len(des.pre.buffer))
       => ~des.ok /\ Called = des.pre

C15_Witness ==
  /\ des.op = "setCursor" /\ ~des.ok
  /\ des.arg = Len(des.pre.buffer) + 1
  /\ des.pre.cursor > 0 /\ Called.cursor = des.pre.cursor

(***************************************************************************)
(* C16: after any sequence of writer calls the writer's buffer is never    *)
(* longer than the maxExpectedSize given at construction.                  *)
(***************************************************************************)
C16_BufferWithinMaxSize ==
  phase = "writer" => Len(writer.buffer) <= cfg.max

C16_Witness ==
  /\ phase = "writer" /\ des.op = "writeScalar" /\ ~des.ok
  /\ Len(writer.buffer) = cfg.max /\ writer.cursor = cfg.max

(***************************************************************************)
(* C17: once a reader is ready no addData changes its buffer; addData with *)
(* length > 0 returns false.                                               *)
(***************************************************************************)
C17_ReadyReaderRejectsData ==
  (phase = "reader" /\ des.op = "addData" /\ des.pre.ready) =>
    /\ reader.buffer = des.pre.buffer
    /\ reader.ready
    /\ Len(des.arg.octets) > 0 => ~des.ok

C17_Witness ==
  /\ phase = "reader" /\ des.op = "addData" /\ des.pre.ready
  /\ ~des.arg.isNull /\ Len(des.arg.octets) > 0
  /\ Len(des.pre.buffer) > 0 /\ ~des.ok

(***************************************************************************)
(* C18: once setWritingFinished has returned true on a writer, every later *)
(* writeNext leaves the buffer's length and contents unchanged, and a      *)
(* second setWritingFinished returns false.                                *)
(***************************************************************************)
C18_FinishedWriterIsFinal ==
  (phase = "writer" /\ des.pre.ready) =>
    /\ des.op \in {"writeScalar", "writeString", "writeRecord"}
         => writer.buffer = des.pre.buffer
    /\ des.op = "setWritingFinished" => ~des.ok

\* the calls that hasDataLeft guards
GuardedReads ==
  {"readScalar", "readBool", "readString", "readVector", "readMap",
   "readRecord", "advanceCursor"}

(***************************************************************************)
(* C19: a reader built with all_data = false or from a null pointer is not *)
(* ready; while it is not ready hasDataLeft, advanceCursor and every       *)
(* readNext return false with the cursor unchanged; it becomes ready       *)
(* exactly when an addData with a non-null pointer and all_data = true     *)
(* succeeds, and then the octets of all successful addData calls are       *)
(* readable in the order they were added.                                  *)
(***************************************************************************)
C19_ReaderReadiness ==
  phase = "reader" =>
    /\ des.op = "new" => (reader.ready <=> (~des.arg.isNull /\ des.arg.all_data))
    /\ ~reader.ready => \A size \in IOAdvances \cup {ToU64(0)} : ~hasDataLeft(reader, size)
    /\ (des.op \in GuardedReads /\ ~des.pre.ready)
         => ~des.ok /\ reader.cursor = des.pre.cursor
    /\ (des.op # "new" /\ ~des.pre.ready)
         => (reader.ready <=> /\ des.op = "addData" /\ des.ok
                              /\ ~des.arg.isNull /\ des.arg.all_data)
    /\ reader.buffer = stream
    /\ (des.op = "readScalar" /\ des.ok)
         => des.out = FromWire(SubSeq(stream, des.pre.cursor + 1,
                                      des.pre.cursor + des.arg), reader.endian)

C19_Witness ==
  /\ phase = "reader" /\ des.op = "readScalar" /\ des.ok
  /\ Len(stream) = SizeTypeBytes + 1 /\ des.pre.cursor = SizeTypeBytes
  /\ des.out = <<7>>

C19_WitnessNotReady ==
  /\ phase = "reader" /\ des.op \in GuardedReads /\ ~des.pre.ready
  /\ Len(des.pre.buffer) > SizeTypeBytes /\ ~des.ok

(***************************************************************************)
(* Header::calculateChecksum applied to byte ranges: the range grows octet *)
(* by octet and the function is applied to the range as it stands.         *)
(***************************************************************************)
HashOctets == {0, 143, 255}
NoHash == [op |-> "none", arg |-> <<>>, out |-> <<>>]

InitHash ==
  /\ recs = <<>> /\ sealed = <<>> /\ tamper = NoTamper /\ round = 1
  /\ first = [stream |-> <<>>]
  /\ finished = "no" /\ nread = 0 /\ phase = "hash"
  /\ cfg = [min |-> 0, max |-> 0, endian |-> "little"]
  /\ writer = IdleWriter /\ reader = NoReader
  /\ stream = <<>>
  /\ des = NoHash

\* one more octet in the container handed to calculateChecksum
HashExtend(b) ==
  /\ Len(stream) < MaxHashLen
  /\ stream' = stream \o <<b>>
  /\ des' = NoHash
  /\ UNCHANGED <<cfg, writer, finished, recs, phase, sealed, tamper, reader,
                 nread, round, first>>

\* const int32_t checksum = Header::calculateChecksum(class_data)
HashApply ==
  /\ des.op = "none"
  /\ des' = [op |-> "calculateChecksum", arg |-> stream,
             out |-> calculateChecksum(stream)]
  /\ UNCHANGED <<cfg, writer, finished, recs, phase, stream, sealed, tamper,
                 reader, nread, round, first>>

NextHash ==
  \/ \E b \in HashOctets : HashExtend(b)
  \/ HashApply

SpecHash == InitHash /\ [][NextHash]_vars

\* h = h * 31 + b on the four octets of h, least significant first, the
\* carry out of the fourth octet dropped
RefStep(h, b) ==
  LET a1 == h[1] * 31 + b
      a2 == h[2] * 31 + (a1 \div 256)
      a3 == h[3] * 31 + (a2 \div 256)
      a4 == h[4] * 31 + (a3 \div 256)
  IN  <<a1 % 256, a2 % 256, a3 % 256, a4 % 256>>

RECURSIVE RefFold(_, _)
RefFold(binary, k) ==
  IF k = 0 THEN Limbs(Len(binary), 4) ELSE RefStep(RefFold(binary, k - 1), binary[k])

\* the reference hash: h0 = n, h = h * 31 + b modulo 2^32, 0 replaced by 1
RefChecksum(binary) ==
  LET h == RefFold(binary, Len(binary))
  IN  IF h = <<0, 0, 0, 0>> THEN <<1, 0, 0, 0>> ELSE h

(***************************************************************************)
(* C20: Header::calculateChecksum over a byte range of length n equals the *)
(* reference hash h0 = n, h = h * 31 + b for each octet in order, in       *)
(* 32-bit wrap-around arithmetic, with 0 replaced by 1; it never returns 0 *)
(* and is a function of the bytes alone.                                   *)
(***************************************************************************)
C20_ChecksumIsReferenceHash ==
  (des.op = "calculateChecksum") =>
    /\ des.arg = stream
    /\ des.out = RefChecksum(stream)
    /\ des.out # NoChecksum

C20_Witness ==
  /\ des.op = "calculateChecksum"
  /\ Len(stream) = MaxHashLen /\ des.out[4] >= 128

C20_WitnessZero ==
  /\ des.op = "calculateChecksum"
  /\ stream = <<>> /\ des.out = <<1, 0, 0, 0>>

(***************************************************************************)
(* A scalar written and read back on a host of either byte order.  The     *)
(* writer and the reader copy the object representation of the value with  *)
(* memcpy when their endianness is the host's, and shift octet by octet    *)
(* otherwise.                                                              *)
(***************************************************************************)
\* HostOrder that takes every host for a little-endian one
HostOrderLittle(limbs, native) == limbs

\* the object representation of an unsigned value on a host whose byte order
\* is native; limbs are the value's octets, least significant first
HostOrder(limbs, native) == IF native = "little" THEN limbs ELSE Reverse(limbs)

\* the octets BinaryDataWriter::writeNext(T) stores at dest
writeBits(limbs, endian, native) ==
  IF Len(limbs) = 1 THEN limbs
  ELSE IF endian = native THEN HostOrder(limbs, native)
  ELSE ToWire(limbs, endian)

\* the bits BinaryDataReader::readNext(T*) assembles from the octets at src
readBits(octets, endian, native) ==
  IF Len(octets) = 1 THEN octets
  ELSE IF endian = native THEN HostOrder(octets, native)
  ELSE FromWire(octets, endian)

\* BinaryDataWriter::writeNext(T value) on a host of byte order native
writeNextOnHost(w, limbs, native) ==
  LET r == resizeIfNeeded(w, Len(limbs))
  IN  IF ~r.ok THEN [ok |-> FALSE, b |-> r.b]
      ELSE [ok |-> TRUE, b |-> PutOctets(r.b, writeBits(limbs, w.endian, native))]

\* BinaryDataReader::readNext(T* value) on a host of byte order native
readNextOnHost(r, n, native) ==
  IF ~hasDataLeft(r, ToU64(n)) THEN [ok |-> FALSE, b |-> r, limbs |-> <<>>]
  ELSE [ok |-> TRUE, b |-> [r EXCEPT !.cursor = @ + n],
        limbs |-> readBits(SubSeq(r.buffer, r.cursor + 1, r.cursor + n),
                           r.endian, native)]

\* values of width 1, 2, 4 and 8, as octets least significant first:
\* 0x01, 0xC8, 0x1234, 0x01020304, 0x12345678, 0x80000000,
\* 0x0102030405060708
EndianValues ==
  {<<1>>, <<200>>, <<52, 18>>, <<4, 3, 2, 1>>, <<120, 86, 52, 18>>,
   <<0, 0, 0, 128>>, <<8, 7, 6, 5, 4, 3, 2, 1>>}

InitEndian ==
  /\ recs = <<>> /\ sealed = <<>> /\ tamper = NoTamper /\ round = 1
  /\ finished = "no" /\ nread = 0 /\ phase = "endian-new"
  /\ cfg \in {[min |-> 0, max |-> 2 * SizeTypeBytes, endian |-> e, native |-> h] :
                e \in Endians, h \in Endians}
  /\ first \in {[stream |-> <<>>, value |-> v] : v \in EndianValues}
  /\ writer = NewWriter(cfg.min, cfg.max, cfg.endian)
  /\ reader = NoReader
  /\ stream = <<>>
  /\ des = [op |-> "new", ok |-> TRUE, out |-> <<>>]

\* writer.writeNext(value), once or twice
EndianWrite ==
  /\ phase \in {"endian-new", "endian-written"} /\ nread < 2
  /\ LET r == writeNextOnHost(writer, first.value, cfg.native)
     IN  /\ writer' = r.b
         /\ des' = [op |-> "write", ok |-> r.ok, out |-> <<>>]
  /\ phase' = "endian-written"
  /\ nread' = nread + 1
  /\ UNCHANGED <<cfg, finished, recs, stream, sealed, tamper, reader, round, first>>

\* writer.setWritingFinished(); auto buf = writer.releaseBuffer()
EndianRelease ==
  /\ phase = "endian-written"
  /\ LET f == setWritingFinished(writer, TRUE)
         r == releaseBuffer(f.b)
     IN  /\ f.ok
         /\ stream' = r.octets
         /\ writer' = r.b
  /\ phase' = "endian-released"
  /\ des' = [op |-> "release", ok |-> TRUE, out |-> <<>>]
  /\ UNCHANGED <<cfg, finished, recs, sealed, tamper, reader, nread, round, first>>

\* BinaryDataReader r(std::move(buf), endian)
EndianOpen(endian) ==
  /\ phase = "endian-released"
  /\ reader' = NewReader(stream, endian)
  /\ phase' = "endian-reader"
  /\ des' = [op |-> "open", ok |-> TRUE, out |-> <<>>]
  /\ UNCHANGED <<cfg, writer, finished, recs, stream, sealed, tamper, nread, round, first>>

\* r.readNext(&v)
EndianRead ==
  /\ phase \in {"endian-reader", "endian-read"}
  /\ reader.cursor < Len(reader.buffer)
  /\ LET r == readNextOnHost(reader, Len(first.value), cfg.native)
     IN  /\ reader' = r.b
         /\ des' = [op |-> "read", ok |-> r.ok, out |-> r.limbs]
  /\ phase' = "endian-read"
  /\ UNCHANGED <<cfg, writer, finished, recs, stream, sealed, tamper, nread, round, first>>

NextEndian ==
  \/ EndianWrite
  \/ EndianRelease
  \/ \E e \in Endians : EndianOpen(e)
  \/ EndianRead

SpecEndian == InitEndian /\ [][NextEndian]_vars

\* the octets of width n at 0-based position at of a sequence
OctetsAt(octets, at, n) == SubSeq(octets, at + 1, at + n)

(***************************************************************************)
(* C21: for every integer of width 1, 2, 4 or 8 a little-endian writer     *)
(* emits the octets least significant first and a big-endian writer most   *)
(* significant first, on any host; a reader of the same endianness decodes *)
(* the original value and a reader of the opposite endianness decodes the  *)
(* byte-reversed value.                                                    *)
(***************************************************************************)
C21_EndianCodec ==
  LET v == first.value
      n == Len(v)
  IN  /\ (phase = "endian-written" /\ des.ok)
           => /\ writer.cursor = nread * n
              /\ OctetsAt(writer.buffer, writer.cursor - n, n)
                   = IF cfg.endian = "little" THEN v ELSE Reverse(v)
      /\ phase = "endian-read"
           => /\ des.ok
              /\ des.out = IF reader.endian = cfg.endian THEN v ELSE Reverse(v)

C21_Witness ==
  /\ phase = "endian-read" /\ cfg.endian = "little" /\ reader.endian = "big"
  /\ first.value = <<4, 3, 2, 1>>
  /\ OctetsAt(stream, 0, 4) = <<4, 3, 2, 1>>
  /\ des.ok /\ des.out = <<1, 2, 3, 4>>

C21_WitnessBigHost ==
  /\ phase = "endian-read" /\ cfg.native = "big" /\ cfg.endian = "big"
  /\ reader.endian = "big" /\ first.value = <<4, 3, 2, 1>>
  /\ OctetsAt(stream, 0, 4) = <<1, 2, 3, 4>> /\ des.out = first.value

(***************************************************************************)
(* utf8Conversion.hpp: utf8ToWstring and wstringToUtf8.  Strings are       *)
(* sequences of code units; wide16 says that wchar_t has 16 bits           *)
(* (is_wchar_16), otherwise it has 32.                                     *)
(***************************************************************************)
UNICODE_MAX_CODEPOINT == 1114111
UNICODE_PLANE1_START == 65536
UTF8_MIN_2BYTE == 128
UTF8_MIN_3BYTE == 2048
UTF8_MIN_4BYTE == UNICODE_PLANE1_START
UTF16_HIGH_SURROGATE_MIN == 55296
UTF16_HIGH_SURROGATE_MAX == 56319
UTF16_LOW_SURROGATE_MIN == 56320
UTF16_LOW_SURROGATE_MAX == 57343
UTF8_CONT_MASK == 63
UTF8_CONT_PREFIX == 128
UTF8_TWO_BYTE_PREFIX == 192
UTF8_THREE_BYTE_PREFIX == 224
UTF8_FOUR_BYTE_PREFIX == 240
UTF8_2BYTE_MASK == 31
UTF8_3BYTE_MASK == 15
UTF8_4BYTE_MASK == 7
UTF8_4BYTE_PREFIX_MASK == 248
UTF16_SURROGATE_SHIFT == 10
UTF16_SURROGATE_MASK == 1023
UTF8_SHIFT_6 == 6
UTF8_SHIFT_12 == 12
UTF8_SHIFT_18 == 18
UTF8_ONE_BYTE_MAX == 127
UTF8_TWO_BYTE_MAX == 2047
UTF8_THREE_BYTE_MAX == 65535

\* a & b, a | b, a >> n, a << n on naturals
RECURSIVE BitAnd(_, _)
BitAnd(a, b) ==
  IF a = 0 \/ b = 0 THEN 0
  ELSE (a % 2) * (b % 2) + 2 * BitAnd(a \div 2, b \div 2)
BitOr(a, b) == a + b - BitAnd(a, b)
RECURSIVE ShiftRight(_, _)
ShiftRight(a, n) == IF n = 0 THEN a ELSE ShiftRight(a \div 2, n - 1)
RECURSIVE ShiftLeft(_, _)
ShiftLeft(a, n) == IF n = 0 THEN a ELSE ShiftLeft(a * 2, n - 1)

\* utf8ToWstring: decodeLeadingByte
decodeLeadingByte(first_) ==
  IF first_ <= UTF8_ONE_BYTE_MAX
  THEN [ok |-> TRUE, codePoint |-> first_, len |-> 1]
  ELSE IF BitAnd(first_, UTF8_THREE_BYTE_PREFIX) = UTF8_TWO_BYTE_PREFIX
  THEN [ok |-> TRUE, codePoint |-> BitAnd(first_, UTF8_2BYTE_MASK), len |-> 2]
  ELSE IF BitAnd(first_, UTF8_FOUR_BYTE_PREFIX) = UTF8_THREE_BYTE_PREFIX
  THEN [ok |-> TRUE, codePoint |-> BitAnd(first_, UTF8_3BYTE_MASK), len |-> 3]
  ELSE IF BitAnd(first_, UTF8_4BYTE_PREFIX_MASK) = UTF8_FOUR_BYTE_PREFIX
  THEN [ok |-> TRUE, codePoint |-> BitAnd(first_, UTF8_4BYTE_MASK), len |-> 4]
  ELSE [ok |-> FALSE, codePoint |-> 0, len |-> 0]

\* utf8ToWstring: appendContBytes, from continuation octet j on; start is
\* the 1-based position of the leading octet
RECURSIVE appendContBytes(_, _, _, _, _)
appendContBytes(str, start, len, j, codePoint) ==
  IF j >= len THEN [ok |-> TRUE, codePoint |-> codePoint]
  ELSE LET uchar == str[start + j]
       IN  IF BitAnd(uchar, UTF8_TWO_BYTE_PREFIX) # UTF8_CONT_PREFIX
           THEN [ok |-> FALSE, codePoint |-> codePoint]
           ELSE appendContBytes(str, start, len, j + 1,
                                BitOr(ShiftLeft(codePoint, UTF8_SHIFT_6),
                                      BitAnd(uchar, UTF8_CONT_MASK)))

\* isOverlong that looks at two-octet sequences only
isOverlongTwoOnly(codePoint, len) == len = 2 /\ codePoint < UTF8_MIN_2BYTE

\* utf8ToWstring: isOverlong, isSurrogate
isOverlong(codePoint, len) ==
  \/ len = 2 /\ codePoint < UTF8_MIN_2BYTE
  \/ len = 3 /\ codePoint < UTF8_MIN_3BYTE
  \/ len = 4 /\ codePoint < UTF8_MIN_4BYTE
isSurrogate(codePoint) ==
  codePoint >= UTF16_HIGH_SURROGATE_MIN /\ codePoint <= UTF16_LOW_SURROGATE_MAX

\* the wchar_t units pushed for a code point
WideUnits(codePoint, wide16) ==
  IF wide16 /\ codePoint > UTF8_THREE_BYTE_MAX
  THEN LET cpOffset == codePoint - UNICODE_PLANE1_START
       IN  <<UTF16_HIGH_SURROGATE_MIN
               + BitAnd(ShiftRight(cpOffset, UTF16_SURROGATE_SHIFT), UTF16_SURROGATE_MASK),
             UTF16_LOW_SURROGATE_MIN + BitAnd(cpOffset, UTF16_SURROGATE_MASK)>>
  ELSE <<codePoint>>

\* the while loop of utf8ToWstring from 1-based position i on
RECURSIVE Utf8Loop(_, _, _, _)
Utf8Loop(input, i, temp_out, wide16) ==
  IF i > Len(input) THEN [ok |-> TRUE, out |-> temp_out]
  ELSE LET d == decodeLeadingByte(input[i])
       IN  IF ~d.ok THEN [ok |-> FALSE, out |-> temp_out]
           ELSE IF (i - 1) + d.len > Len(input) THEN [ok |-> FALSE, out |-> temp_out]
           ELSE LET c == appendContBytes(input, i, d.len, 1, d.codePoint)
                IN  IF ~c.ok THEN [ok |-> FALSE, out |-> temp_out]
                    ELSE IF \/ isOverlong(c.codePoint, d.len)
                            \/ isSurrogate(c.codePoint)
                            \/ c.codePoint > UNICODE_MAX_CODEPOINT
                    THEN [ok |-> FALSE, out |-> temp_out]
                    ELSE Utf8Loop(input, i + d.len,
                                  temp_out \o WideUnits(c.codePoint, wide16), wide16)

\* util::utf8ToWstring(input, out) with a non-null out holding old
utf8ToWstring(input, old, wide16) ==
  LET r == Utf8Loop(input, 1, <<>>, wide16)
  IN  IF r.ok THEN [ok |-> TRUE, out |-> r.out] ELSE [ok |-> FALSE, out |-> old]

\* static_cast<char>(x) as an octet
CharOf(x) == x % 256

\* wstringToUtf8: pushUtf8Bytes; a code point above UNICODE_MAX_CODEPOINT
\* reaches the empty else branch and nothing is pushed
pushUtf8Bytes(outStr, codePoint) ==
  IF codePoint <= UTF8_ONE_BYTE_MAX THEN outStr \o <<CharOf(codePoint)>>
  ELSE IF codePoint <= UTF8_TWO_BYTE_MAX
  THEN outStr \o <<CharOf(BitOr(UTF8_TWO_BYTE_PREFIX, ShiftRight(codePoint, UTF8_SHIFT_6))),
                   CharOf(BitOr(UTF8_CONT_PREFIX, BitAnd(codePoint, UTF8_CONT_MASK)))>>
  ELSE IF codePoint <= UTF8_THREE_BYTE_MAX
  THEN outStr \o <<CharOf(BitOr(UTF8_THREE_BYTE_PREFIX, ShiftRight(codePoint, UTF8_SHIFT_12))),
                   CharOf(BitOr(UTF8_CONT_PREFIX,
                                BitAnd(ShiftRight(codePoint, UTF8_SHIFT_6), UTF8_CONT_MASK))),
                   CharOf(BitOr(UTF8_CONT_PREFIX, BitAnd(codePoint, UTF8_CONT_MASK)))>>
  ELSE IF codePoint <= UNICODE_MAX_CODEPOINT
  THEN outStr \o <<CharOf(BitOr(UTF8_FOUR_BYTE_PREFIX, ShiftRight(codePoint, UTF8_SHIFT_18))),
                   CharOf(BitOr(UTF8_CONT_PREFIX,
                                BitAnd(ShiftRight(codePoint, UTF8_SHIFT_12), UTF8_CONT_MASK))),
                   CharOf(BitOr(UTF8_CONT_PREFIX,
                                BitAnd(ShiftRight(codePoint, UTF8_SHIFT_6), UTF8_CONT_MASK))),
                   CharOf(BitOr(UTF8_CONT_PREFIX, BitAnd(codePoint, UTF8_CONT_MASK)))>>
  ELSE outStr

\* the while loop of wstringToUtf8 from 1-based position i on
RECURSIVE WideLoop(_, _, _, _)
WideLoop(wstr, i, temp_out, wide16) ==
  IF i > Len(wstr) THEN [ok |-> TRUE, out |-> temp_out]
  ELSE LET codePoint == wstr[i]
       IN  IF wide16
           THEN IF codePoint >= UTF16_HIGH_SURROGATE_MIN /\ codePoint <= UTF16_HIGH_SURROGATE_MAX
                THEN IF i + 1 > Len(wstr) THEN [ok |-> FALSE, out |-> temp_out]
                     ELSE LET low == wstr[i + 1]
                          IN  IF low < UTF16_LOW_SURROGATE_MIN \/ low > UTF16_LOW_SURROGATE_MAX
                              THEN [ok |-> FALSE, out |-> temp_out]
                              ELSE WideLoop(wstr, i + 2,
                                     pushUtf8Bytes(temp_out,
                                       UNICODE_PLANE1_START
                                       + BitOr(ShiftLeft(codePoint - UTF16_HIGH_SURROGATE_MIN,
                                                         UTF16_SURROGATE_SHIFT),
                                               low - UTF16_LOW_SURROGATE_MIN)),
                                     wide16)
                ELSE IF codePoint >= UTF16_LOW_SURROGATE_MIN /\ codePoint <= UTF16_LOW_SURROGATE_MAX
                THEN [ok |-> FALSE, out |-> temp_out]
                ELSE WideLoop(wstr, i + 1, pushUtf8Bytes(temp_out, codePoint), wide16)
           ELSE IF codePoint >= UTF16_HIGH_SURROGATE_MIN /\ codePoint <= UTF16_LOW_SURROGATE_MAX
                THEN [ok |-> FALSE, out |-> temp_out]
                ELSE WideLoop(wstr, i + 1, pushUtf8Bytes(temp_out, codePoint), wide16)

\* util::wstringToUtf8(wstr, out) with a non-null out holding old
wstringToUtf8(wstr, old, wide16) ==
  LET r == WideLoop(wstr, 1, <<>>, wide16)
  IN  IF r.ok THEN [ok |-> TRUE, out |-> r.out] ELSE [ok |-> FALSE, out |-> old]

(***************************************************************************)
(* The two conversions applied to strings that grow piece by piece, on a   *)
(* host with 16-bit and on a host with 32-bit wchar_t.                     *)
(***************************************************************************)
\* UTF-8 pieces: "A", U+00E9, U+20AC, U+1F600, U+10FFFF, U+D7FF; lone
\* continuation octets; overlong forms; surrogates U+D800 and U+DFFF; cut
\* sequences; U+110000; the lead octets F5 and FF
Utf8Chunks ==
  {<<65>>, <<195, 169>>, <<226, 130, 172>>, <<240, 159, 152, 128>>,
   <<244, 143, 191, 191>>, <<237, 159, 191>>,
   <<128>>, <<191>>,
   <<192, 128>>, <<224, 128, 128>>, <<240, 128, 128, 128>>,
   <<237, 160, 128>>, <<237, 191, 191>>,
   <<195>>, <<226, 130>>, <<240, 159, 152>>,
   <<244, 144, 128, 128>>, <<245, 128, 128, 128>>, <<255>>}

\* wchar_t values: "A", U+00E9, U+20AC, U+D7FF, the surrogate bounds,
\* U+E000, U+FFFF, U+10000, U+1F600, U+10FFFF, 0x110000
WideChars(wide16) ==
  IF wide16 THEN {65, 8364, 55295, 55296, 55357, 56319, 56320, 56832, 57343, 65535}
  ELSE {65, 233, 8364, 55295, 55296, 57343, 57344, 65535, 65536, 128512,
        1114111, 1114112}

\* the caller's output string before a call
OldOut == <<88>>
NoConversion == [op |-> "none", ok |-> TRUE, arg |-> <<>>, old |-> <<>>, out |-> <<>>]

InitUtf ==
  /\ recs = <<>> /\ sealed = <<>> /\ tamper = NoTamper /\ round = 1
  /\ first = [stream |-> <<>>]
  /\ finished = "no" /\ nread = 0
  /\ phase \in {"utf8", "wide"}
  /\ cfg \in {[min |-> 0, max |-> 0, endian |-> "little", wide16 |-> w] : w \in BOOLEAN}
  /\ writer = IdleWriter /\ reader = NoReader
  /\ stream = <<>>
  /\ des = NoConversion

\* one more piece in the UTF-8 input
Utf8Extend(chunk) ==
  /\ phase = "utf8" /\ nread < MaxUtf8Chunks
  /\ stream' = stream \o chunk
  /\ nread' = nread + 1
  /\ des' = NoConversion
  /\ UNCHANGED <<cfg, writer, finished, recs, phase, sealed, tamper, reader, round, first>>

\* util::utf8ToWstring(input, &out)
Utf8Decode ==
  /\ phase = "utf8" /\ des.op = "none"
  /\ LET r == utf8ToWstring(stream, OldOut, cfg.wide16)
     IN  des' = [op |-> "utf8ToWstring", ok |-> r.ok, arg |-> stream,
                 old |-> OldOut, out |-> r.out]
  /\ UNCHANGED <<cfg, writer, finished, recs, phase, stream, sealed, tamper,
                 reader, nread, round, first>>

\* one more wchar_t in the wide input
WideExtend(c) ==
  /\ phase = "wide" /\ Len(stream) < MaxWideLen
  /\ stream' = stream \o <<c>>
  /\ des' = NoConversion
  /\ UNCHANGED <<cfg, writer, finished, recs, phase, sealed, tamper, reader,
                 nread, round, first>>

\* util::wstringToUtf8(wstr, &utf8)
WideEncode ==
  /\ phase = "wide" /\ des.op = "none"
  /\ LET r == wstringToUtf8(stream, OldOut, cfg.wide16)
     IN  des' = [op |-> "wstringToUtf8", ok |-> r.ok, arg |-> stream,
                 old |-> OldOut, out |-> r.out]
  /\ UNCHANGED <<cfg, writer, finished, recs, phase, stream, sealed, tamper,
                 reader, nread, round, first>>

\* util::utf8ToWstring(utf8, &decoded) on the UTF-8 just produced
WideDecodeBack ==
  /\ phase = "wide" /\ des.op = "wstringToUtf8" /\ des.ok
  /\ LET r == utf8ToWstring(des.out, OldOut, cfg.wide16)
     IN  des' = [op |-> "decodeBack", ok |-> r.ok, arg |-> des.out,
                 old |-> OldOut, out |-> r.out]
  /\ UNCHANGED <<cfg, writer, finished, recs, phase, stream, sealed, tamper,
                 reader, nread, round, first>>

NextUtf ==
  \/ \E chunk \in Utf8Chunks : Utf8Extend(chunk)
  \/ Utf8Decode
  \/ \E c \in WideChars(cfg.wide16) : WideExtend(c)
  \/ WideEncode
  \/ WideDecodeBack

SpecUtf == InitUtf /\ [][NextUtf]_vars

\* well-formed UTF-8 from position i on, by the ranges of the octets of a
\* sequence: 00..7F | C2..DF t | E0 A0..BF t | E1..EC t t | ED 80..9F t |
\* EE..EF t t | F0 90..BF t t | F1..F3 t t t | F4 80..8F t t, t = 80..BF
InRange(s, i, lo, hi) == i <= Len(s) /\ s[i] >= lo /\ s[i] <= hi
ContOctet(s, i) == InRange(s, i, 128, 191)
RECURSIVE WellFormedUtf8(_, _)
WellFormedUtf8(s, i) ==
  IF i > Len(s) THEN TRUE
  ELSE IF s[i] <= 127 THEN WellFormedUtf8(s, i + 1)
  ELSE IF InRange(s, i, 194, 223) /\ ContOctet(s, i + 1) THEN WellFormedUtf8(s, i + 2)
  ELSE IF \/ s[i] = 224 /\ InRange(s, i + 1, 160, 191) /\ ContOctet(s, i + 2)
          \/ InRange(s, i, 225, 236) /\ ContOctet(s, i + 1) /\ ContOctet(s, i + 2)
          \/ s[i] = 237 /\ InRange(s, i + 1, 128, 159) /\ ContOctet(s, i + 2)
          \/ InRange(s, i, 238, 239) /\ ContOctet(s, i + 1) /\ ContOctet(s, i + 2)
       THEN WellFormedUtf8(s, i + 3)
  ELSE IF \/ s[i] = 240 /\ InRange(s, i + 1, 144, 191) /\ ContOctet(s, i + 2) /\ ContOctet(s, i + 3)
          \/ InRange(s, i, 241, 243) /\ ContOctet(s, i + 1) /\ ContOctet(s, i + 2) /\ ContOctet(s, i + 3)
          \/ s[i] = 244 /\ InRange(s, i + 1, 128, 143) /\ ContOctet(s, i + 2) /\ ContOctet(s, i + 3)
       THEN WellFormedUtf8(s, i + 4)
  ELSE FALSE

(***************************************************************************)
(* C22: utf8ToWstring returns false and leaves the caller's wide string    *)
(* unchanged for every input that holds a lone continuation octet, an      *)
(* overlong encoding, an encoded surrogate, a cut multi-octet sequence, a  *)
(* code point >= U+110000 or a lead octet in F5..FF, wherever it occurs.   *)
(***************************************************************************)
C22_MalformedUtf8Rejected ==
  (des.op = "utf8ToWstring" /\ ~WellFormedUtf8(stream, 1))
    => ~des.ok /\ des.out = des.old

C22_Witness ==
  /\ des.op = "utf8ToWstring" /\ ~des.ok /\ des.out = OldOut
  /\ stream = <<65, 226, 130, 172, 224, 128, 128>>

\* every wchar_t of the string is a Unicode scalar value (32-bit wchar_t),
\* resp. the string is well-formed UTF-16 from position i on (16-bit)
RECURSIVE ScalarValues(_, _, _)
ScalarValues(w, i, wide16) ==
  IF i > Len(w) THEN TRUE
  ELSE IF w[i] < 55296 \/ (w[i] > 57343 /\ w[i] <= 1114111)
  THEN ScalarValues(w, i + 1, wide16)
  ELSE IF wide16 /\ w[i] <= 56319 /\ i < Len(w) /\ w[i + 1] >= 56320 /\ w[i + 1] <= 57343
  THEN ScalarValues(w, i + 2, wide16)
  ELSE FALSE

(***************************************************************************)
(* C23: for every wide string wstringToUtf8 either returns false or        *)
(* produces UTF-8 that utf8ToWstring decodes back to the same wide string: *)
(* it succeeds for every string of Unicode scalar values and returns false *)
(* for a string holding anything else, never dropping a character.         *)
(***************************************************************************)
C23_WideRoundTrip ==
  /\ des.op = "wstringToUtf8" => (des.ok <=> ScalarValues(stream, 1, cfg.wide16))
  /\ des.op = "decodeBack" => (des.ok /\ des.out = stream)

(***************************************************************************)
(* Serializable::serialize statement by statement.  phase is the statement *)
(* the call in progress is at ("idle": no call in progress), first is the  *)
(* call in progress and recs are the calls that have returned.             *)
(***************************************************************************)
SerWriterSizes == {<<0, 256>>, <<30, 30>>, <<60, 60>>, <<60, 256>>, <<128, 256>>}

\* the statements of serialize in program order
SerSteps == <<"reserve", "body", "header", "checksum", "restore">>

\* a successor function that goes on after a failed statement
SerNextGoesOn(step, ok) ==
  IF step = "reserve" THEN "body"
  ELSE IF step = "body" THEN "header"
  ELSE IF step = "header" THEN "checksum"
  ELSE IF step = "checksum" THEN "restore"
  ELSE "return"

\* the statement after step: every if (!...) return false leaves the call
SerNext(step, ok) ==
  IF ~ok THEN "return"
  ELSE IF step = "reserve" THEN "body"
  ELSE IF step = "body" THEN "header"
  ELSE IF step = "header" THEN "checksum"
  ELSE IF step = "checksum" THEN "restore"
  ELSE "return"

InitSer ==
  /\ cfg \in {[min |-> s[1], max |-> s[2], endian |-> e] :
                s \in SerWriterSizes, e \in Endians}
  /\ writer = NewWriter(cfg.min, cfg.max, cfg.endian)
  /\ finished = "no" /\ recs = <<>> /\ phase = "idle"
  /\ stream = <<>> /\ sealed = <<>> /\ tamper = NoTamper
  /\ reader = NoReader /\ nread = 0 /\ round = 1
  /\ des = [op |-> "none", ok |-> TRUE]
  /\ first = [stream |-> <<>>]

\* writer.writeNext(rec): serialize is entered, cursor_before_header taken
SerCall(rec) ==
  /\ phase = "idle" /\ Len(recs) < MaxRecords
  /\ first' = [stream |-> <<>>, rec |-> rec, pre |-> writer, p0 |-> writer.cursor,
               p1 |-> writer.cursor, steps |-> <<>>]
  /\ phase' = "reserve"
  /\ des' = [op |-> "call", ok |-> TRUE]
  /\ UNCHANGED <<cfg, writer, finished, recs, stream, sealed, tamper, reader,
                 nread, round>>

\* the statement step has run, returned ok and left the writer as w and
\* cursor_after_class as p1
SerStep(step, ok, w, p1) ==
  LET call == [first EXCEPT !.steps = Append(@, [op |-> step, ok |-> ok]), !.p1 = p1]
      next == SerNext(step, ok)
  IN  /\ phase = step
      /\ writer' = w
      /\ des' = [op |-> step, ok |-> ok]
      /\ IF next = "return"
         THEN /\ recs' = Append(recs, [rec |-> call.rec, ok |-> ok, pre |-> call.pre,
                                       p0 |-> call.p0, p1 |-> call.p1,
                                       steps |-> call.steps, after |-> w])
              /\ first' = [stream |-> <<>>]
              /\ phase' = "idle"
         ELSE /\ recs' = recs
              /\ first' = call
              /\ phase' = next
      /\ UNCHANGED <<cfg, finished, stream, sealed, tamper, reader, nread, round>>

\* if (!writer.setCursor(cursor_after_header)) return false
SerReserve ==
  /\ phase = "reserve"
  /\ LET s == setCursor(writer, first.p0 + HeaderBytes)
     IN  SerStep("reserve", s.ok, s.b, first.p1)

\* if (!serializeClass(writer)) return false; cursor_after_class
SerBody ==
  /\ phase = "body"
  /\ LET s == serializeClass(writer, first.rec, <<IONow, IONow>>)
     IN  SerStep("body", s.ok, s.b, s.b.cursor)

\* if (!writer.setCursor(cursor_before_header)) return false; the header
\* with NO_CHECKSUM; if (!writer.writeNext(header)) return false
SerHeader ==
  /\ phase = "header"
  /\ LET s3 == setCursor(writer, first.p0)
         flags == setTime(setControlHash(setEndian(0, writer.endian), TRUE), TRUE)
         header == Header(Limbs(RecordId(first.rec), 2), Limbs(RecordVersion(first.rec), 1),
                          ToU64(first.p1 - (first.p0 + HeaderBytes)), flags,
                          NoChecksum, IONow)
         s4 == IF s3.ok THEN HeaderSerialize(s3.b, header) ELSE s3
     IN  SerStep("header", s4.ok, s4.b, first.p1)

\* the checksum of the span, setCursor(cursor_before_header) and
\* writeNext(checksum)
SerChecksum ==
  /\ phase = "checksum"
  /\ LET class_buffer == getBuffer(writer, first.p0 + ChecksumBytes,
                                   first.p1 - (first.p0 + HeaderBytes))
         s5 == setCursor(writer, first.p0)
         s6 == IF s5.ok THEN writeNextScalar(s5.b, calculateChecksum(class_buffer))
               ELSE s5
     IN  SerStep("checksum", s6.ok, s6.b, first.p1)

\* return writer.setCursor(cursor_after_class)
SerRestore ==
  /\ phase = "restore"
  /\ LET s == setCursor(writer, first.p1)
     IN  SerStep("restore", s.ok, s.b, first.p1)

NextSer ==
  \/ \E rec \in Records : SerCall(rec)
  \/ SerReserve
  \/ SerBody
  \/ SerHeader
  \/ SerChecksum
  \/ SerRestore

SpecSer == InitSer /\ [][NextSer]_vars

\* the calls made so far, the one in progress last
SerCalls ==
  IF phase = "idle" THEN recs
  ELSE Append(recs, [rec |-> first.rec, ok |-> FALSE, pre |-> first.pre, p0 |-> first.p0,
                     p1 |-> first.p1, steps |-> first.steps, after |-> writer])

\* the octets of s at positions lo+1 .. hi that s has
Slice(s, lo, hi) == SubSeq(s, lo + 1, IF hi < Len(s) THEN hi ELSE Len(s))

(***************************************************************************)
(* C24: within one serialize call the statements run in the order reserve  *)
(* header room, body serializer, header back-fill, checksum back-fill,     *)
(* cursor restored to p1; the body serializer runs at most once per call   *)
(* and exactly once in a call that succeeds; after a failed statement no   *)
(* later one runs, and after a failed body no octet of [p0, p0+24) has     *)
(* changed.                                                                *)
(***************************************************************************)
C24_SerializeStepOrder ==
  /\ \A k \in 1..Len(SerCalls) :
       LET c == SerCalls[k]
           n == Len(c.steps)
       IN  /\ n <= Len(SerSteps)
           /\ \A i \in 1..n : c.steps[i].op = SerSteps[i]
           /\ \A i \in 1..(n - 1) : c.steps[i].ok
           /\ Cardinality({i \in 1..n : c.steps[i].op = "body"}) <= 1
           /\ c.ok => n = Len(SerSteps) /\ c.steps[n].ok
           /\ (n = 2 /\ ~c.steps[2].ok)
                => Slice(c.after.buffer, c.p0, c.p0 + HeaderBytes)
                     = Slice(c.pre.buffer, c.p0, c.p0 + HeaderBytes)
  /\ \A k \in 1..Len(recs) :
       LET c == recs[k]
           r == Serialize(c.pre, c.rec, <<IONow, IONow>>)
       IN  /\ c.ok = r.ok /\ c.after = r.b
           /\ ~c.ok => ~c.steps[Len(c.steps)].ok

C24_Witness ==
  /\ Len(recs) = 2 /\ recs[1].ok /\ ~recs[2].ok
  /\ Len(recs[2].steps) = 2 /\ recs[2].p0 > 0
  /\ recs[2].after.buffer # recs[2].pre.buffer

(***************************************************************************)
(* C25: once a record has been serialized successfully into [p0, p1),      *)
(* serializing a further record at cursor p1, whether that call succeeds   *)
(* or fails part-way, leaves every octet of [0, p1) unchanged.             *)
(***************************************************************************)
C25_EarlierRecordsKept ==
  \A k \in 2..Len(SerCalls) :
    LET done == SerCalls[k - 1]
        c    == SerCalls[k]
    IN  (done.ok /\ c.p0 = done.p1)
          => /\ Len(c.after.buffer) >= done.p1
             /\ Slice(c.after.buffer, 0, done.p1) = Slice(done.after.buffer, 0, done.p1)

C25_Witness ==
  /\ Len(recs) = 2 /\ recs[1].ok /\ recs[2].ok
  /\ recs[2].p0 = recs[1].p1
  /\ Len(recs[2].after.buffer) > Len(recs[2].pre.buffer)

C25_WitnessPartWay ==
  /\ Len(recs) = 2 /\ recs[1].ok /\ ~recs[2].ok
  /\ recs[2].p0 = recs[1].p1
  /\ recs[2].after.cursor > recs[2].p0 + HeaderBytes

(***************************************************************************)
(* C26: serialize on a writer at cursor p0 succeeds whenever               *)
(* p0 + 24 + (encoded body size) <= max_size, whatever the current length  *)
(* of the writer's storage.                                                *)
(***************************************************************************)
C26_SerializeFitsMaxSize ==
  \A k \in 1..Len(recs) :
    LET c == recs[k]
    IN  c.p0 + HeaderBytes + BodySize(c.rec) <= cfg.max => c.ok

(***************************************************************************)
(* BinaryDataBuffer::getBuffer(start, length) applied to buffers of        *)
(* different lengths; octet i of the buffer holds i.                       *)
(***************************************************************************)
InitSpan ==
  /\ cfg = [min |-> 0, max |-> MaxSpanLen, endian |-> "little"]
  /\ writer = NewWriter(cfg.min, cfg.max, cfg.endian)
  /\ finished = "no" /\ recs = <<>> /\ phase = "span"
  /\ stream = <<>> /\ sealed = <<>> /\ tamper = NoTamper
  /\ reader = NoReader /\ nread = 0 /\ round = 1
  /\ des = [op |-> "none", start |-> 0, length |-> 0, out |-> <<>>]
  /\ first = [stream |-> <<>>]

\* writer.writeNext(uint8_t(cursor + 1))
SpanWrite ==
  /\ phase = "span" /\ Len(writer.buffer) < MaxSpanLen
  /\ LET r == writeNextScalar(writer, <<writer.cursor + 1>>)
     IN  r.ok /\ writer' = r.b
  /\ des' = [op |-> "none", start |-> 0, length |-> 0, out |-> <<>>]
  /\ UNCHANGED <<cfg, finished, recs, phase, stream, sealed, tamper, reader,
                 nread, round, first>>

\* writer.getBuffer(start, length)
SpanGet(start, length) ==
  /\ phase = "span"
  /\ des' = [op |-> "getBuffer", start |-> start, length |-> length,
             out |-> getBuffer(writer, start, length)]
  /\ UNCHANGED <<cfg, writer, finished, recs, phase, stream, sealed, tamper,
                 reader, nread, round, first>>

NextSpan ==
  \/ SpanWrite
  \/ \E start \in 0..(MaxSpanLen + 1), length \in 0..(MaxSpanLen + 1) :
       SpanGet(start, length)

SpecSpan == InitSpan /\ [][NextSpan]_vars

(***************************************************************************)
(* C27: getBuffer(start, length) returns the length octets at              *)
(* [start, start+length) for every start and length with                   *)
(* start + length <= size(), also for a range that ends at the last octet, *)
(* and an empty span otherwise.                                            *)
(***************************************************************************)
C27_GetBufferSpan ==
  (des.op = "getBuffer") =>
    des.out = IF des.start + des.length <= Len(writer.buffer)
              THEN SubSeq(writer.buffer, des.start + 1, des.start + des.length)
              ELSE <<>>

(***************************************************************************)
(* BinaryDataWriter::writeNext(std::array<T, N>) for arrays of integers;   *)
(* an array is the sequence of its elements, each its octets least         *)
(* significant first.                                                      *)
(***************************************************************************)
\* the octets of the elements of a container of integers
RECURSIVE ElementBytes(_)
ElementBytes(value) ==
  IF value = <<>> THEN 0 ELSE Len(Head(value)) + ElementBytes(Tail(value))

\* BinaryDataWriter::estimateContainerSize: sizeof(size_type) plus
\* size() * sizeof(value_type)
estimateContainerSize(value) == SizeTypeBytes + ElementBytes(value)

\* for (i = 0; i < N; ++i) if (!writeNext(value[i])) return false
RECURSIVE WriteElements(_, _, _)
WriteElements(w, value, i) ==
  IF i > Len(value) THEN [ok |-> TRUE, b |-> w]
  ELSE LET r == writeNextScalar(w, value[i])
       IN  IF ~r.ok THEN r ELSE WriteElements(r.b, value, i + 1)

\* BinaryDataWriter::writeNext(const std::array<T, N>& value)
writeNextArray(w, value) ==
  LET r == resizeIfNeeded(w, estimateContainerSize(value))
  IN  IF ~r.ok THEN [ok |-> FALSE, b |-> r.b]
      ELSE WriteElements(r.b, value, 1)

ArrWriterSizes == {<<0, 4>>, <<0, 12>>, <<8, 12>>, <<0, 40>>}
\* std::array<uint8_t, 2>, std::array<uint8_t, 3>, std::array<uint16_t, 2>
ArrValues == {<< <<1>>, <<2>> >>, << <<1>>, <<2>>, <<3>> >>,
              << Limbs(655, 2), Limbs(1, 2) >>}

InitArr ==
  /\ cfg \in {[min |-> s[1], max |-> s[2], endian |-> e] :
                s \in ArrWriterSizes, e \in Endians}
  /\ writer = NewWriter(cfg.min, cfg.max, cfg.endian)
  /\ finished = "no" /\ recs = <<>> /\ phase = "array"
  /\ stream = <<>> /\ sealed = <<>> /\ tamper = NoTamper
  /\ reader = NoReader /\ nread = 0 /\ round = 1
  /\ des = [op |-> "new", ok |-> TRUE, arg |-> <<>>, pre |-> writer]
  /\ first = [stream |-> <<>>]

\* a call on the writer that returned ok and left the writer as w
ArrCall(op, arg, ok, w) ==
  /\ phase = "array" /\ nread < MaxCalls
  /\ writer' = w
  /\ des' = [op |-> op, ok |-> ok, arg |-> arg, pre |-> writer]
  /\ nread' = nread + 1
  /\ UNCHANGED <<cfg, finished, recs, phase, stream, sealed, tamper, reader,
                 round, first>>

\* writer.writeNext(T)
ArrWriteScalar(limbs) ==
  LET r == writeNextScalar(writer, limbs) IN ArrCall("writeScalar", limbs, r.ok, r.b)

\* writer.writeNext(std::array<T, N>)
ArrWriteArray(value) ==
  LET r == writeNextArray(writer, value) IN ArrCall("writeArray", value, r.ok, r.b)

NextArr ==
  \/ \E limbs \in IOScalars : ArrWriteScalar(limbs)
  \/ \E value \in ArrValues : ArrWriteArray(value)

SpecArr == InitArr /\ [][NextArr]_vars

(***************************************************************************)
(* C28: writing a fixed array of N elements of a fixed-width type T        *)
(* succeeds whenever cursor + N*sizeof(T) <= max_size and fails only when  *)
(* the N encodings would exceed max_size; on success the cursor advances   *)
(* by exactly N*sizeof(T).                                                 *)
(***************************************************************************)
C28_ArrayWriteFits ==
  (des.op = "writeArray") =>
    LET bytes == ElementBytes(des.arg)
    IN  /\ des.ok <=> des.pre.cursor + bytes <= des.pre.maxExpectedSize
        /\ des.ok => writer.cursor = des.pre.cursor + bytes

(***************************************************************************)
(* C29: findNextBytesAndAdvance(pattern, advanceBeyond) on a ready reader  *)
(* moves the cursor to the start of the first occurrence of pattern at or  *)
(* after the cursor (just past it when advanceBeyond) and returns true;    *)
(* when the pattern is empty, does not occur at or after the cursor, or    *)
(* the reader is not ready or already at the end, it returns false and     *)
(* leaves the cursor unchanged.                                            *)
(***************************************************************************)
\* pattern lies in buffer at offset p
OccursAt(buffer, pattern, p) ==
  /\ p + Len(pattern) <= Len(buffer)
  /\ \A i \in 1..Len(pattern) : buffer[p + i] = pattern[i]

\* p is the first offset at or after cursor where pattern lies in buffer
FirstOccurrence(buffer, pattern, cursor, p) ==
  /\ p >= cursor /\ OccursAt(buffer, pattern, p)
  /\ \A q \in cursor..(p - 1) : ~OccursAt(buffer, pattern, q)

C29_FindNextBytes ==
  (des.op = "findNextBytesAndAdvance") =>
    LET pre     == des.pre
        pattern == des.arg.bytes
        found   == /\ pre.ready /\ pattern # <<>> /\ pre.cursor < Len(pre.buffer)
                   /\ \E p \in 0..Len(pre.buffer) :
                        FirstOccurrence(pre.buffer, pattern, pre.cursor, p)
    IN  /\ des.ok <=> found
        /\ des.ok =>
             \E p \in 0..Len(pre.buffer) :
               /\ FirstOccurrence(pre.buffer, pattern, pre.cursor, p)
               /\ reader.cursor = IF des.arg.advanceBeyond THEN p + Len(pattern) ELSE p
        /\ ~des.ok => reader.cursor = pre.cursor
        /\ reader.buffer = pre.buffer /\ reader.ready = pre.ready

\* the pattern is found beyond a cursor that is not at the start, with an
\* earlier occurrence before the cursor
C29_Witness ==
  /\ des.op = "findNextBytesAndAdvance" /\ des.ok
  /\ des.pre.cursor > 0 /\ ~des.arg.advanceBeyond
  /\ reader.cursor > des.pre.cursor
  /\ OccursAt(des.pre.buffer, des.arg.bytes, 0)

\* the cursor is left just past a pattern of two octets
C29_WitnessBeyond ==
  /\ des.op = "findNextBytesAndAdvance" /\ des.ok /\ des.arg.advanceBeyond
  /\ Len(des.arg.bytes) = 2 /\ reader.cursor = des.pre.cursor + 3

\* the pattern lies only before the cursor: false, cursor unchanged
C29_WitnessNotFound ==
  /\ des.op = "findNextBytesAndAdvance" /\ ~des.ok /\ des.pre.ready
  /\ des.pre.cursor > 0 /\ des.pre.cursor < Len(des.pre.buffer)
  /\ OccursAt(des.pre.buffer, des.arg.bytes, 0) /\ des.arg.bytes # <<>>

(***************************************************************************)
(* C30: a successful deserialize of a record whose header starts at cursor *)
(* c leaves the cursor at c + 24 + body_size, the first octet after that   *)
(* record; so k records serialized back to back into one writer are        *)
(* decoded by k consecutive deserialize calls on one reader, in the order  *)
(* they were written, each yielding its own record.                        *)
(***************************************************************************)
\* this step is a readNext(record) on the reader that returned true
RecordRead == phase = "read" /\ nread' = nread + 1 /\ des'.ok

\* the records were written back to back by successful calls and the reader
\* of the writer's byte order reads the octets as released
BackToBack ==
  /\ tamper = NoTamper /\ reader.endian = cfg.endian
  /\ \A i \in 1..Len(recs) : recs[i].ok
  /\ \A i \in 1..(Len(recs) - 1) : recs[i + 1].p0 = recs[i].p1

C30_ConsecutiveRecords ==
  [][RecordRead =>
       LET c == reader.cursor
           h == HeaderAt(reader.buffer, c, reader.endian)
       IN  /\ reader'.cursor >= c + HeaderBytes
           /\ ToU64(reader'.cursor - (c + HeaderBytes)) = h.body_size
           /\ BackToBack =>
                /\ c = recs[nread'].p0
                /\ reader'.cursor = recs[nread'].p1
                /\ des'.val = recs[nread'].rec]_vars

\* the second of two different records written back to back was decoded,
\* after the first, and the cursor is at the end of the stream
C30_Witness ==
  /\ phase = "read" /\ nread = 2 /\ Len(recs) = 2 /\ BackToBack
  /\ des.ok /\ des.val = recs[2].rec /\ recs[1].rec # recs[2].rec
  /\ recs[1].rec.kind = "T2"
  /\ recs[2].p0 > 0 /\ reader.cursor = recs[2].p1

====
